------------------------------- MODULE Library -------------------------------
(***************************************************************************)
(* The personal layer of a library and the ways it leaves and returns      *)
(* (app/main.py, scripts/restore_backup.py): personal_notes with its       *)
(* notes form, heart, tags and queue, the notes on rewatches and episodes, *)
(* the self-service export and import, the scheduled backups and their     *)
(* restore.  A statement is one step; what takes several is interleaved    *)
(* with everything else.                                                   *)
(*                                                                         *)
(* drop_reason, notes, mood_tags and anilist_id_override are always        *)
(* written and read together: text stands for them.  A favorite of NULL    *)
(* reads as FALSE.                                                         *)
(***************************************************************************)
EXTENDS Integers, Sequences, FiniteSets, SequencesExt

CONSTANTS
  User,        \* the accounts, by id
  Editor,      \* those of them whose owner changes something
  Title,       \* the anime table
  Text,        \* what can be written about a title
  Reason,      \* texts that carry a drop reason
  Tag,         \* tags as spelled
  Lower,       \* Lower[t]: the lower-case spelling of t
  TagLists,    \* the lists of tags a bulk edit submits
  Forms,       \* what the notes form submits
  MaxReach,    \* model bound on episodes and rewatches
  Keep,        \* _BACKUP_RETENTION_COUNT
  MaxWrites,   \* model bound on edits
  MaxBackups,  \* model bound on backups taken
  MaxWipes,    \* model bound on losses of data
  MaxRefused   \* model bound on restores cut short

Blank == "blank"

ASSUME LibraryAssumption ==
  /\ User \subseteq Nat /\ IsFiniteSet(User) /\ IsFiniteSet(Title)
  /\ Editor \subseteq User /\ Reason \subseteq Text /\ TagLists \subseteq Seq(Tag) /\ Lower \in [Tag -> Tag]
  /\ Forms \subseteq [text: Text \cup {Blank}, tags: Seq(Tag), priority: Nat]
  /\ {MaxReach, MaxWrites, MaxBackups, MaxWipes, MaxRefused} \subseteq Nat /\ Keep \in Nat \ {0}

Unset == 0
Key == User \X Title
Kind == {"rewatch", "episode"}
Part == {"note", "quote"}

Row == [text: Text \cup {Blank}, tags: Seq(Tag), priority: Nat, favorite: BOOLEAN]
Empty == [text |-> Blank, tags |-> <<>>, priority |-> Unset, favorite |-> FALSE]

Listing == [status: {"PLANNING", "COMPLETED", "DROPPED"}, reached: [Kind -> 0..MaxReach]]
Added(status) == [status |-> status, reached |-> [x \in Kind |-> 0]]

VARIABLES
  entries,   \* library_entries: the keys in the library, their status and how far they got
  notes,     \* personal_notes
  heart,     \* ghost: keys whose heart was last switched on
  worn,      \* ghost: the tags of a key as a set of lower-case names
  dropping,  \* notes forms with a drop reason whose status change is still under way
  tasks,     \* item-by-item requests under way, and where they came from
  file,      \* the export in the user's hands
  noting,    \* a rewatch or episode note whose range check has passed
  marks,     \* rewatch_notes and episode_notes, one element per part that is not blank
  peak,      \* ghost: how far a key ever got
  users,     \* the users table
  taken,     \* a backup under way: the users read so far
  stage,     \* how far that backup is
  backups,   \* instance_backups, oldest first
  writes, wipes,
  refused    \* restores cut short

library == <<entries, notes, heart, worn, dropping, tasks, file, noting, marks, peak, users, taken, stage, backups,
             writes, wipes, refused>>

personal == <<notes, heart, worn>>
noted == <<noting, marks, peak>>
backup == <<users, taken, stage, backups>>

NoFile == {}
NotNoting == [op |-> "none"]
NotesOf(k) == IF k \in DOMAIN notes THEN notes[k] ELSE Empty

\* What is in new, and what else was in old.
Over(new, old) == [k \in DOMAIN new \cup DOMAIN old |-> IF k \in DOMAIN new THEN new[k] ELSE old[k]]
Put(k, x, old) == Over([j \in {k} |-> x], old)

\* INSERT ... ON CONFLICT (user_id, anime_id) DO UPDATE.
Saved(k, row) == Put(k, row, notes)

\* Mutant of Written: the whole row is replaced.
WrittenOver(row, r) == [Empty EXCEPT !.text = r.text, !.tags = r.tags, !.priority = r.priority]

Written(row, r) == [row EXCEPT !.text = r.text, !.tags = r.tags, !.priority = r.priority]

\* Ghost: a list of tags as the set of names it stands for.
Names(tags) == {Lower[tags[i]] : i \in DOMAIN tags}

Counted == writes < MaxWrites /\ writes' = writes + 1

LibraryTypeOK ==
  /\ DOMAIN entries \subseteq Key /\ \A k \in DOMAIN entries : entries[k] \in Listing
  /\ DOMAIN notes \subseteq Key /\ \A k \in DOMAIN notes : notes[k] \in Row
  /\ heart \subseteq Key /\ worn \in [Key -> SUBSET Tag] /\ dropping \subseteq Key /\ users \subseteq User
  /\ \A k \in marks : k \in Key \X Kind \X (1..MaxReach) \X Part
  /\ peak \in [Key -> [Kind -> 0..MaxReach]]
  /\ DOMAIN taken \subseteq User /\ stage \in {"idle", "export", "prune"}

LibraryInit ==
  /\ entries = [k \in Key |-> Added("PLANNING")]   \* as the first pull sync left it
  /\ notes = <<>> /\ heart = {} /\ worn = [k \in Key |-> {}] /\ dropping = {} /\ tasks = {} /\ file = NoFile
  /\ noting = NotNoting /\ marks = {} /\ peak = [k \in Key |-> [x \in Kind |-> 0]]
  /\ users = User /\ taken = <<>> /\ stage = "idle" /\ backups = <<>>
  /\ writes = 0 /\ wipes = 0 /\ refused = 0

-----------------------------------------------------------------------------
\* Notes, heart, library membership.

\* _upsert_personal_notes replaces every column but favorite.
SaveNotes(k, r) ==
  /\ Counted
  /\ notes' = Saved(k, Written(NotesOf(k), r))
  /\ worn' = [worn EXCEPT ![k] = Names(r.tags)]
  /\ dropping' = IF r.text \in Reason THEN dropping \cup {k} ELSE dropping
  /\ UNCHANGED <<entries, heart, tasks, file, noted, backup, wipes, refused>>

\* What the form of a drop reason does next; a failure is logged and the notes stay.
DropAnswered(k) ==
  /\ k \in dropping
  /\ dropping' = dropping \ {k}
  /\ \/ entries' = Put(k, IF k \in DOMAIN entries THEN [entries[k] EXCEPT !.status = "DROPPED"] ELSE Added("DROPPED"), entries)
     \/ UNCHANGED entries
  /\ UNCHANGED <<personal, tasks, file, noted, backup, writes, wipes, refused>>

SetFavorite(k, on) ==
  /\ Counted
  /\ notes' = Saved(k, [NotesOf(k) EXCEPT !.favorite = on])
  /\ heart' = IF on THEN heart \cup {k} ELSE heart \ {k}
  /\ UNCHANGED <<entries, worn, dropping, tasks, file, noted, backup, wipes, refused>>

\* The personal layer of a removed title is left in place.
DeleteAnime(k) ==
  /\ Counted /\ k \in DOMAIN entries
  /\ entries' = [j \in DOMAIN entries \ {k} |-> entries[j]]
  /\ UNCHANGED <<personal, dropping, tasks, file, noted, backup, wipes, refused>>

AddAnime(k) ==
  /\ Counted /\ k \notin DOMAIN entries
  /\ entries' = Put(k, Added("PLANNING"), entries)
  /\ UNCHANGED <<personal, dropping, tasks, file, noted, backup, wipes, refused>>

-----------------------------------------------------------------------------
\* Tags.

\* The tags at some of the positions, in the order of the list.
Picked(tags, at) ==
  [n \in 1..Cardinality(at) |-> tags[CHOOSE i \in at : Cardinality({j \in at : j <= i}) = n]]

\* DISTINCT ON (lower(tag)), the first spelling kept.
Deduped(tags) == Picked(tags, {i \in DOMAIN tags : \A j \in 1..(i - 1) : Lower[tags[j]] # Lower[tags[i]]})

Carries(row, tag) == \E i \in DOMAIN row.tags : Lower[row.tags[i]] = Lower[tag]

BulkTags(ks, tags) ==
  /\ Counted
  /\ notes' = Over([k \in ks |-> [NotesOf(k) EXCEPT !.tags =
                      IF k \in DOMAIN notes THEN Deduped(notes[k].tags \o tags) ELSE tags]], notes)
  /\ worn' = [k \in Key |-> IF k \in ks THEN worn[k] \cup Names(tags) ELSE worn[k]]
  /\ UNCHANGED <<entries, heart, dropping, tasks, file, noted, backup, wipes, refused>>

\* One UPDATE over the user's rows that carry the tag: tagsOf, by row.
Retagged(u, tag, tagsOf, names) ==
  /\ Counted
  /\ notes' = [k \in DOMAIN notes |-> IF k[1] = u /\ Carries(notes[k], tag)
                                      THEN [notes[k] EXCEPT !.tags = tagsOf[k]] ELSE notes[k]]
  /\ worn' = [k \in Key |-> IF k[1] = u /\ Lower[tag] \in worn[k] THEN (worn[k] \ {Lower[tag]}) \cup names ELSE worn[k]]
  /\ UNCHANGED <<entries, heart, dropping, tasks, file, noted, backup, wipes, refused>>

RenameTag(u, old, new) ==
  LET spelled(tags) == [i \in DOMAIN tags |-> IF Lower[tags[i]] = Lower[old] THEN new ELSE tags[i]]
  IN Retagged(u, old, [k \in DOMAIN notes |-> Deduped(spelled(notes[k].tags))], {Lower[new]})

DeleteTag(u, tag) ==
  LET kept(tags) == Picked(tags, {i \in DOMAIN tags : Lower[tags[i]] # Lower[tag]})
  IN Retagged(u, tag, [k \in DOMAIN notes |-> kept(notes[k].tags)], {})

-----------------------------------------------------------------------------
\* Queue and import: one statement per item, each committed by itself.

\* An empty order writes nothing.
Reorder(u, order) ==
  /\ Counted /\ order # <<>>
  /\ tasks' = tasks \cup {[op |-> "reorder", todo |-> [i \in DOMAIN order |-> <<<<u, order[i]>>, [Empty EXCEPT !.priority = i]>>]]}
  /\ UNCHANGED <<entries, personal, dropping, file, noted, backup, wipes, refused>>

\* _export_user_library: the titles in the library with their personal layer.
Exported(u) == [k \in {j \in DOMAIN entries : j[1] = u} |-> [entry |-> entries[k], row |-> NotesOf(k)]]

Download(u) ==
  /\ file = NoFile
  /\ file' = {<<k, Exported(u)[k].row>> : k \in DOMAIN Exported(u)}
  /\ UNCHANGED <<entries, personal, dropping, tasks, noted, backup, writes, wipes, refused>>

\* _analyze_personal_notes_import, and the gate: without confirm nothing is
\* written when a row that exists would be.
Carrying(row) == row.text # Blank \/ row.tags # <<>> \/ row.priority # Unset
Importable == {x \in file : Carrying(x[2])}
NeedsConfirmation == \E x \in Importable : x[1] \in DOMAIN notes

Import(confirm) ==
  /\ Counted /\ Importable # {}
  /\ NeedsConfirmation => confirm
  /\ tasks' = tasks \cup {[op |-> "import", todo |-> SetToSeq(Importable)]}
  /\ UNCHANGED <<entries, personal, dropping, file, noted, backup, wipes, refused>>

NextItem(task) ==
  LET k == Head(task.todo)[1]
      r == Head(task.todo)[2]
      left == Tail(task.todo)
  IN /\ notes' = Saved(k, IF task.op = "reorder" THEN [NotesOf(k) EXCEPT !.priority = r.priority]
                          ELSE Written(NotesOf(k), r))
     /\ worn' = IF task.op = "reorder" THEN worn ELSE [worn EXCEPT ![k] = Names(r.tags)]
     /\ tasks' = (tasks \ {task}) \cup (IF left = <<>> THEN {} ELSE {[task EXCEPT !.todo = left]})
     /\ UNCHANGED <<entries, heart, dropping, file, noted, backup, writes, wipes, refused>>

-----------------------------------------------------------------------------
\* Notes on a rewatch or an episode: the range is checked, then the row written.

\* The pull sync, the progress buttons and providers move progress and repeat_count.
Reaches(k, reached) ==
  /\ Counted /\ k \in DOMAIN entries
  /\ entries' = [entries EXCEPT ![k].reached = reached]
  /\ peak' = [peak EXCEPT ![k] = [x \in Kind |-> IF reached[x] > @[x] THEN reached[x] ELSE @[x]]]
  /\ UNCHANGED <<personal, dropping, tasks, file, noting, marks, backup, wipes, refused>>

NoteAsked(k, kind, n, parts) ==
  /\ Counted /\ noting = NotNoting
  /\ n >= 1 /\ k \in DOMAIN entries /\ n <= entries[k].reached[kind]
  /\ kind = "rewatch" => parts \subseteq {"note"}
  /\ noting' = [op |-> "note", at |-> <<k, kind, n>>, parts |-> parts]
  /\ UNCHANGED <<entries, personal, dropping, tasks, file, marks, peak, backup, wipes, refused>>

\* The row goes only when nothing of it is left.
NoteWritten ==
  /\ noting # NotNoting
  /\ marks' = {m \in marks : <<m[1], m[2], m[3]>> # noting.at} \cup {<<noting.at[1], noting.at[2], noting.at[3], p>> : p \in noting.parts}
  /\ noting' = NotNoting
  /\ UNCHANGED <<entries, personal, dropping, tasks, file, peak, backup, writes, wipes, refused>>

-----------------------------------------------------------------------------
\* Backups and their restore.

\* was: ghost, the rows themselves, next to what the export says of them.
BackUpUser(u) ==
  /\ stage \in {"idle", "export"} /\ u \in users \ DOMAIN taken /\ (\A v \in users \ DOMAIN taken : u <= v) /\ Len(backups) < MaxBackups
  /\ stage' = "export"
  /\ taken' = Put(u, [content |-> Exported(u), was |-> [k \in DOMAIN Exported(u) |-> NotesOf(k)]], taken)
  /\ UNCHANGED <<entries, personal, dropping, tasks, file, noted, users, backups, writes, wipes, refused>>

StoreBackup ==
  /\ stage = "export" /\ users \subseteq DOMAIN taken
  /\ backups' = Append(backups, taken)
  /\ stage' = "prune" /\ taken' = <<>>
  /\ UNCHANGED <<entries, personal, dropping, tasks, file, noted, users, writes, wipes, refused>>

PruneBackups ==
  /\ stage = "prune"
  /\ backups' = IF Len(backups) > Keep THEN SubSeq(backups, Len(backups) - Keep + 1, Len(backups)) ELSE backups
  /\ stage' = "idle"
  /\ UNCHANGED <<entries, personal, dropping, tasks, file, noted, users, taken, writes, wipes, refused>>

BackupFails ==
  /\ stage # "idle"
  /\ stage' = "idle" /\ taken' = <<>>
  /\ UNCHANGED <<entries, personal, dropping, tasks, file, noted, users, backups, writes, wipes, refused>>

\* The tables are lost, and the accounts in gone with them.
Wipe(gone) ==
  /\ wipes < MaxWipes /\ wipes' = wipes + 1
  /\ entries' = <<>> /\ notes' = <<>> /\ heart' = {} /\ worn' = [k \in Key |-> {}] /\ marks' = {}
  /\ users' = users \ gone
  /\ UNCHANGED <<dropping, tasks, file, noting, peak, taken, stage, backups, writes, refused>>

\* What the script writes of a backup: nothing for an account that is not there,
\* no notes where the backup has none.
Restorable(b) == {x \in UNION {{<<k, b[u].content[k]>> : k \in DOMAIN b[u].content} : u \in DOMAIN b} : x[1][1] \in users}

\* Mutant of Noted: a heart alone is not worth a row.
NotedInWords(row) == Carrying(row)

Noted(row) == Carrying(row) \/ row.favorite

\* bad: entries one of whose statements the database refuses.  That ends the
\* transaction, whose commit at the end then keeps nothing.
Restore(b, bad) ==
  LET rows == {x \in Restorable(b) : Noted(x[2].row)}
      Of(k, s) == (CHOOSE x \in s : x[1] = k)[2]
      restored == {x[1] : x \in rows}
  IN /\ UNCHANGED <<dropping, tasks, file, noted, backup, writes, wipes>>
     /\ IF \E x \in Restorable(b) : x[1] \in bad
        THEN refused < MaxRefused /\ refused' = refused + 1 /\ UNCHANGED <<entries, personal>>
        ELSE /\ UNCHANGED refused
             /\ entries' = Over([k \in {x[1] : x \in Restorable(b)} |-> Of(k, Restorable(b)).entry], entries)
             /\ notes' = Over([k \in restored |-> Of(k, rows).row], notes)
             /\ worn' = [k \in Key |-> IF k \in restored THEN Names(Of(k, rows).row.tags) ELSE worn[k]]
             /\ heart' = (heart \ restored) \cup {x[1] : x \in {y \in rows : y[2].row.favorite}}

-----------------------------------------------------------------------------
Mine == Editor \X Title

Edits ==
  \E k \in Mine : \/ \E r \in Forms : SaveNotes(k, r)
                   \/ \E on \in BOOLEAN : SetFavorite(k, on)

PersonalNext ==
  \/ Edits
  \/ \E k \in Mine : DropAnswered(k) \/ DeleteAnime(k) \/ AddAnime(k)
  \/ \E ks \in SUBSET Mine \ {{}}, tags \in TagLists : BulkTags(ks, tags)
  \/ \E u \in Editor : \/ \E old, new \in Tag : RenameTag(u, old, new)
                        \/ \E tag \in Tag : DeleteTag(u, tag)
                        \/ \E order \in SetToSeqs(Title) : Reorder(u, order)
                        \/ Download(u)
  \/ \E confirm \in BOOLEAN : Import(confirm)
  \/ \E task \in tasks : NextItem(task)

NotingNext ==
  \/ NoteWritten
  \/ \E k \in Mine : \/ \E reached \in [Kind -> 0..MaxReach] : Reaches(k, reached)
                     \/ DeleteAnime(k) \/ AddAnime(k)
                     \/ \E kind \in Kind, n \in 0..(MaxReach + 1), parts \in SUBSET Part : NoteAsked(k, kind, n, parts)

BackupNext ==
  \/ Edits
  \/ \E k \in Mine : DropAnswered(k) \/ DeleteAnime(k)
  \/ \E u \in User : BackUpUser(u)
  \/ StoreBackup \/ PruneBackups \/ BackupFails
  \/ \E gone \in SUBSET (User \ Editor) : Wipe(gone)
  \/ \E i \in DOMAIN backups, bad \in {{}} \cup {{k} : k \in Mine} : Restore(backups[i], bad)

LibraryNext == PersonalNext \/ NotingNext \/ BackupNext

LibrarySpec == LibraryInit /\ [][LibraryNext]_library

-----------------------------------------------------------------------------
\* A title is a favorite exactly when its heart was last switched on, whatever the
\* notes form, the queue, tag edits, imports, removals and restores wrote to the
\* same row (_set_favorite, _upsert_personal_notes, _apply_personal_notes_import).
HeartKept == \A k \in Key : NotesOf(k).favorite <=> k \in heart

\* The tags of a title are, apart from their spelling, what its forms, imports and
\* restores set, plus what bulk edits added, each renamed, merged and deleted since:
\* no edit of the vocabulary or of one title touches another tag or title
\* (_bulk_apply_tags, _rename_or_merge_tag, _delete_tag).
TagsKept == \A k \in Key : Names(NotesOf(k).tags) = worn[k]

\* What has a note was reached at some time, however progress moved between the
\* range check and the write (_save_rewatch_note, _save_episode_note).
NotedWasReached == \A m \in marks : m[3] <= peak[m[1]][m[2]]

PersonalLayer == HeartKept /\ TagsKept /\ NotedWasReached

\* A restore that no statement of fails gives every account that exists the titles
\* of the backup as they were, and whatever had been noted about them
\* (_export_user_library, restore).
RestoredWhole ==
  [][\A i \in DOMAIN backups : Restore(backups[i], {}) =>
       \A u \in users \cap DOMAIN backups[i], k \in Key :
         k \in DOMAIN backups[i][u].was =>
           /\ k \in DOMAIN entries' /\ entries'[k] = backups[i][u].content[k].entry
           /\ backups[i][u].was[k] # Empty => k \in DOMAIN notes' /\ notes'[k] = backups[i][u].was[k]]_library

\* "One bad row shouldn't sink the whole restore": the others are restored all the
\* same (restore_backup.py:168).
OthersRestored ==
  [][\A i \in DOMAIN backups, bad \in Key : Restore(backups[i], {bad}) =>
       \A x \in Restorable(backups[i]) : x[1] # bad => x[1] \in DOMAIN entries' /\ entries'[x[1]] = x[2].entry]_library
=============================================================================
