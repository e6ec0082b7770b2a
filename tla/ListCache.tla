------------------------------ MODULE ListCache ------------------------------
(***************************************************************************)
(* One filter list with a URL, as filter/source.rs loads it: conditional   *)
(* requests to its publisher, and the copy on disk that keeps a restart    *)
(* without network filtered.  The copy is two files, the list (body) and   *)
(* its validators (meta); a new list is written beside the old one (temp)  *)
(* and renamed.                                                            *)
(*                                                                         *)
(* Loaders are the processes that use one cache directory: the server      *)
(* (its updater loads one list set at a time) and `alpendns policy test`.  *)
(* Each may be killed between any two steps; files survive, locals do not. *)
(* Opening a file cuts it off, writing fills it: two steps.  A name can be *)
(* taken away under a file being written, so a writer's handle follows     *)
(* the file, not the name.                                                 *)
(*                                                                         *)
(* A list is its version, a number its publisher only ever raises; a       *)
(* version's validators (ETag, Last-Modified) are the same number.  Size   *)
(* limit, redirects and the age shown in the UI are left out.              *)
(***************************************************************************)
EXTENDS Integers

CONSTANTS
  Loaders,      \* processes that share the cache directory
  MaxVersion,   \* bound: the publisher stops here
  WriteErrors,  \* whether writing to the directory may fail
  None,         \* no file, no validators, nothing loaded
  Cut,          \* a file that was opened for writing and not yet written
  Mixed,        \* a file two writers wrote over each other
  Error         \* Loader::load returned Err

Version == 1..MaxVersion
Content == Version \cup {Cut, Mixed}
File == Content \cup {None}

ASSUME ListCacheAssumption ==
  /\ MaxVersion \in Nat \ {0}
  /\ WriteErrors \in BOOLEAN
  /\ {None, Cut, Mixed, Error} \cap Nat = {}
  /\ None \notin {Cut, Mixed, Error}
  /\ Cut \notin {Mixed, Error}
  /\ Mixed # Error

VARIABLES
  published,  \* what the publisher serves
  body,       \* <name>.list
  temp,       \* <name>.list.new
  meta,       \* <name>.meta
  pc,         \* loader -> where its download is
  tag,        \* loader -> the validators it sent
  text,       \* loader -> the list it was sent
  handle,     \* loader -> where the file it has open is now
  loaded      \* loader -> the result of its last load

disk == <<body, temp, meta>>
vars == <<published, body, temp, meta, pc, tag, text, handle, loaded>>

Init ==
  /\ published = 1
  /\ body = None
  /\ temp = None
  /\ meta = None
  /\ pc = [l \in Loaders |-> "idle"]
  /\ tag = [l \in Loaders |-> None]
  /\ text = [l \in Loaders |-> None]
  /\ handle = [l \in Loaders |-> "closed"]
  /\ loaded = [l \in Loaders |-> None]

Goto(l, place) == pc' = [pc EXCEPT ![l] = place]

(* load returns. *)
Return(l, result) ==
  /\ Goto(l, "idle")
  /\ tag' = [tag EXCEPT ![l] = None]
  /\ text' = [text EXCEPT ![l] = None]
  /\ handle' = [handle EXCEPT ![l] = "closed"]
  /\ loaded' = [loaded EXCEPT ![l] = result]

-----------------------------------------------------------------------------
(* The environment. *)

Publish ==
  /\ published < MaxVersion
  /\ published' = published + 1
  /\ UNCHANGED <<disk, pc, tag, text, handle, loaded>>

(* The process dies, and with it what it had loaded. *)
Crash(l) ==
  /\ Return(l, None)
  /\ UNCHANGED <<published, disk>>

-----------------------------------------------------------------------------
(* download: the validators of the copy on disk go into the request ... *)
ReadMeta(l) ==
  /\ pc[l] = "idle"
  /\ tag' = [tag EXCEPT ![l] = meta]
  /\ Goto(l, "asking")
  /\ UNCHANGED <<published, disk, text, handle, loaded>>

(* Mutation: an empty answer is saved like any other. *)
SaveNothing(l) ==
  /\ pc[l] = "asking"
  /\ tag[l] = published
  /\ Goto(l, "opening")
  /\ UNCHANGED <<published, disk, tag, text, handle, loaded>>

(* ... and the publisher answers 304 if they are those of its list, ... *)
AnswerNotModified(l) ==
  /\ pc[l] = "asking"
  /\ tag[l] = published
  /\ Goto(l, "confirmed")
  /\ UNCHANGED <<published, disk, tag, text, handle, loaded>>

(* ... sends it otherwise, ... *)
AnswerList(l) ==
  /\ pc[l] = "asking"
  /\ tag[l] # published
  /\ text' = [text EXCEPT ![l] = published]
  /\ Goto(l, "opening")
  /\ UNCHANGED <<published, disk, tag, handle, loaded>>

(* ... or nothing usable comes: no connection, an HTTP error, a transfer   *)
(* that breaks off, a list beyond the limit.                               *)
AnswerUnusable(l) ==
  /\ pc[l] = "asking"
  /\ Goto(l, "falling")
  /\ UNCHANGED <<published, disk, tag, text, handle, loaded>>

(* Unchanged, so the copy on disk is the list. *)
ReadConfirmed(l) ==
  /\ pc[l] = "confirmed"
  /\ Return(l, IF body = None THEN Error ELSE body)
  /\ UNCHANGED <<published, disk>>

(* Mutation: what was being written when the process was last killed is    *)
(* taken for the newest copy.                                              *)
FallBackToTemp(l) ==
  /\ pc[l] = "falling"
  /\ Return(l, IF temp # None THEN temp ELSE IF body = None THEN Error ELSE body)
  /\ UNCHANGED <<published, disk>>

(* fall_back, too_large: the copy on disk stays in effect. *)
FallBack(l) ==
  /\ pc[l] = "falling"
  /\ Return(l, IF body = None THEN Error ELSE body)
  /\ UNCHANGED <<published, disk>>

-----------------------------------------------------------------------------
(* write_cache: the list is written beside the old one, ... *)

Over(content, version) ==
  IF content \in {Cut, version} THEN version ELSE Mixed

(* Mutation: the validators are written before the list. *)
TagFirst(l) ==
  /\ pc[l] = "opening"
  /\ temp' = Cut
  /\ meta' = text[l]
  /\ handle' = [handle EXCEPT ![l] = "temp"]
  /\ Goto(l, "writing")
  /\ UNCHANGED <<published, body, tag, text, loaded>>

OpenTemp(l) ==
  /\ pc[l] = "opening"
  /\ temp' = Cut
  /\ handle' = [handle EXCEPT ![l] = "temp"]
  /\ Goto(l, "writing")
  /\ UNCHANGED <<published, body, meta, tag, text, loaded>>

WriteList(l) ==
  /\ pc[l] = "writing"
  /\ temp' = IF handle[l] = "temp" THEN Over(temp, text[l]) ELSE temp
  /\ body' = IF handle[l] = "body" THEN Over(body, text[l]) ELSE body
  /\ handle' = [handle EXCEPT ![l] = "closed"]
  /\ Goto(l, "renaming")
  /\ UNCHANGED <<published, meta, tag, text, loaded>>

(* ... takes its place (unless the name is gone; then nothing is kept),... *)
Moved(h) == CASE h = "temp" -> "body" [] h = "body" -> "gone" [] OTHER -> h

(* Mutation: an existing file is not replaced. *)
RenameOnce(l) ==
  /\ pc[l] = "renaming"
  /\ temp # None
  /\ body' = IF body = None THEN temp ELSE body
  /\ temp' = None
  /\ handle' = [k \in Loaders |-> Moved(handle[k])]
  /\ Goto(l, "tagging")
  /\ UNCHANGED <<published, meta, tag, text, loaded>>

Rename(l) ==
  /\ pc[l] = "renaming"
  /\ temp # None
  /\ body' = temp
  /\ temp' = None
  /\ handle' = [k \in Loaders |-> Moved(handle[k])]
  /\ Goto(l, "tagging")
  /\ UNCHANGED <<published, meta, tag, text, loaded>>

RenameNothing(l) ==
  /\ pc[l] = "renaming"
  /\ temp = None
  /\ Return(l, text[l])
  /\ UNCHANGED <<published, disk>>

(* ... and its validators are written, in place. *)
OpenMeta(l) ==
  /\ pc[l] = "tagging"
  /\ meta' = None
  /\ Goto(l, "tagged")
  /\ UNCHANGED <<published, body, temp, tag, text, handle, loaded>>

(* Mutation: the validators are asked for afresh. *)
WriteCurrentMeta(l) ==
  /\ pc[l] = "tagged"
  /\ meta' = published
  /\ Return(l, text[l])
  /\ UNCHANGED <<published, body, temp>>

WriteMeta(l) ==
  /\ pc[l] = "tagged"
  /\ meta' = text[l]
  /\ Return(l, text[l])
  /\ UNCHANGED <<published, body, temp>>

Saving(l) == pc[l] \in {"opening", "writing", "renaming", "tagging", "tagged"}

(* A step that fails ends write_cache, with the files as they are: the     *)
(* list that was sent is the result all the same.                          *)
WriteFails(l) ==
  /\ WriteErrors
  /\ Saving(l)
  /\ Return(l, text[l])
  /\ UNCHANGED <<published, disk>>

-----------------------------------------------------------------------------
Answer(l) == AnswerNotModified(l) \/ AnswerList(l)

Proceed(l) ==
  \/ ReadMeta(l) \/ Answer(l) \/ AnswerUnusable(l)
  \/ ReadConfirmed(l) \/ FallBack(l)
  \/ OpenTemp(l) \/ WriteList(l) \/ Rename(l) \/ RenameNothing(l)
  \/ OpenMeta(l) \/ WriteMeta(l) \/ WriteFails(l)

Next ==
  \/ Publish
  \/ \E l \in Loaders : Proceed(l) \/ Crash(l)

(***************************************************************************)
(* The updater's interval starts a load again and again, and every request *)
(* is under DOWNLOAD_TIMEOUT.  That the publisher is not out of reach for  *)
(* ever is the environment's part.                                         *)
(***************************************************************************)
Fairness ==
  \A l \in Loaders : WF_vars(Proceed(l)) /\ SF_vars(Answer(l))

Spec == Init /\ [][Next]_vars
FairSpec == Spec /\ Fairness

-----------------------------------------------------------------------------
Places ==
  {"idle", "asking", "confirmed", "falling", "opening", "writing", "renaming",
   "tagging", "tagged"}

TypeOK ==
  /\ published \in Version
  /\ body \in File
  /\ temp \in File
  /\ meta \in Version \cup {None}
  /\ pc \in [Loaders -> Places]
  /\ tag \in [Loaders -> Version \cup {None}]
  /\ text \in [Loaders -> Version \cup {None}]
  /\ handle \in [Loaders -> {"closed", "temp", "body", "gone"}]
  /\ loaded \in [Loaders -> File \cup {Error}]
  /\ \A l \in Loaders : Saving(l) => text[l] \in Version

(***************************************************************************)
(* source.rs:490: wherever a load breaks off, no half list is left that is *)
(* loaded at the next start, or by anybody.                                *)
(***************************************************************************)
NoHalfListIsLoaded == \A l \in Loaders : loaded[l] \notin {Cut, Mixed}

(***************************************************************************)
(* source.rs:431: "unchanged" means that the copy on disk is confirmed.    *)
(* The validators on disk never belong to another list than the one beside *)
(* them when the publisher says they are current: the copy is there, it is *)
(* whole, and it is the list whose validators were sent.                   *)
(***************************************************************************)
ConfirmedIsOnDisk ==
  \A l \in Loaders : pc[l] = "confirmed" => body = tag[l]

(***************************************************************************)
(* A list once kept is never lost: however many processes write the copy   *)
(* and wherever they are killed, the validators on disk never outlive the  *)
(* list, so a 304 is never answered for a list that is not there (the      *)
(* publisher would repeat it for ever, and no load would end well again).  *)
(***************************************************************************)
ConfirmedHasACopy == \A l \in Loaders : pc[l] = "confirmed" => body # None

(***************************************************************************)
(* source.rs:321: what a process has loaded stays the least it works with. *)
(* However the publisher comes and goes, a later load gives the same list  *)
(* or a newer one, or an error (after which the old rules stay in effect). *)
(***************************************************************************)
RunningListNeverGoesBack ==
  [][\A l \in Loaders :
       loaded[l] \in Version /\ loaded'[l] \in Version
         => loaded'[l] >= loaded[l]]_vars

(***************************************************************************)
(* Once the process is no longer killed, it comes to the publisher's list  *)
(* and keeps it, whatever the crashes before left on disk.                 *)
(***************************************************************************)
EventuallyCurrent ==
  \A l \in Loaders :
    <>[][~Crash(l)]_vars => <>[](loaded[l] = published)
=============================================================================
