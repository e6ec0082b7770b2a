--------------------------- MODULE ListCacheProofs ---------------------------
(***************************************************************************)
(* The copy of a list on disk, for any number of versions: first what      *)
(* holds however many processes share the directory, then what holds when  *)
(* there is one.                                                           *)
(***************************************************************************)
EXTENDS MCListCache, TLAPS

USE ListCacheAssumption

LEMMA FileTypes ==
  /\ None \in File /\ Cut \in File /\ Mixed \in File
  /\ Version \subseteq File
  /\ Version \subseteq Nat
  /\ None \notin Version /\ Cut \notin Version /\ Mixed \notin Version
  /\ Error \notin File
BY DEF File, Content, Version

(* The actions that end in Return, and nothing else of the loaders. *)
LEMMA ReturnKeepsType ==
  ASSUME TypeOK, NEW l \in Loaders, NEW r \in File \cup {Error}, Return(l, r)
  PROVE  /\ pc' \in [Loaders -> Places]
         /\ tag' \in [Loaders -> Version \cup {None}]
         /\ text' \in [Loaders -> Version \cup {None}]
         /\ handle' \in [Loaders -> {"closed", "temp", "body", "gone"}]
         /\ loaded' \in [Loaders -> File \cup {Error}]
         /\ \A k \in Loaders : Saving(k)' => text'[k] \in Version
BY DEF TypeOK, Return, Goto, Places, Saving

LEMMA InitTypeOK == Init => TypeOK
BY FileTypes DEF Init, TypeOK, Places, Saving, Version

LEMMA StepTypeOK == TypeOK /\ [Next]_vars => TypeOK'
<1> SUFFICES ASSUME TypeOK, [Next]_vars PROVE TypeOK'
  OBVIOUS
<1> USE FileTypes
<1>1. CASE Publish
  BY <1>1 DEF TypeOK, Publish, disk, Saving, Version
<1>2. ASSUME NEW l \in Loaders, Crash(l) PROVE TypeOK'
  BY <1>2, ReturnKeepsType DEF TypeOK, Crash, disk
<1>3. ASSUME NEW l \in Loaders, ReadMeta(l) PROVE TypeOK'
  BY <1>3 DEF TypeOK, ReadMeta, Goto, Places, Saving, disk
<1>4. ASSUME NEW l \in Loaders, Answer(l) PROVE TypeOK'
  BY <1>4 DEF TypeOK, Answer, AnswerNotModified, AnswerList, Goto, Places, Saving, disk
<1>5. ASSUME NEW l \in Loaders, AnswerUnusable(l) PROVE TypeOK'
  BY <1>5 DEF TypeOK, AnswerUnusable, Goto, Places, Saving, disk
<1>6. ASSUME NEW l \in Loaders, ReadConfirmed(l) \/ FallBack(l) PROVE TypeOK'
  <2>1. (IF body = None THEN Error ELSE body) \in File \cup {Error}
    BY DEF TypeOK
  <2>2. QED BY <1>6, <2>1, ReturnKeepsType DEF TypeOK, ReadConfirmed, FallBack, disk
<1>7. ASSUME NEW l \in Loaders, OpenTemp(l) PROVE TypeOK'
  BY <1>7 DEF TypeOK, OpenTemp, Goto, Places, Saving
<1>8. ASSUME NEW l \in Loaders, WriteList(l) PROVE TypeOK'
  <2>1. text[l] \in Version
    BY <1>8 DEF TypeOK, WriteList, Saving
  <2>2. /\ Over(temp, text[l]) \in File
        /\ Over(body, text[l]) \in File
    BY <2>1 DEF Over
  <2>3. QED BY <1>8, <2>2 DEF TypeOK, WriteList, Goto, Places, Saving
<1>9. ASSUME NEW l \in Loaders, Rename(l) PROVE TypeOK'
  BY <1>9 DEF TypeOK, Rename, Moved, Goto, Places, Saving
<1>10. ASSUME NEW l \in Loaders, OpenMeta(l) PROVE TypeOK'
  BY <1>10 DEF TypeOK, OpenMeta, Goto, Places, Saving
<1>11. ASSUME NEW l \in Loaders, RenameNothing(l) \/ WriteMeta(l) \/ WriteFails(l)
       PROVE  TypeOK'
  <2>1. text[l] \in Version
    BY <1>11 DEF TypeOK, RenameNothing, WriteMeta, WriteFails, Saving
  <2>2. QED
    BY <1>11, <2>1, ReturnKeepsType DEF TypeOK, RenameNothing, WriteMeta, WriteFails, disk
<1>12. CASE UNCHANGED vars
  BY <1>12 DEF TypeOK, vars, Saving
<1>13. QED
  BY <1>1, <1>2, <1>3, <1>4, <1>5, <1>6, <1>7, <1>8, <1>9, <1>10, <1>11, <1>12
  DEF Next, Proceed

(* The files and the loaders keep their types, and whoever saves has       *)
(* something to save (write_cache is called with a list).                  *)
THEOREM TypeCorrect == Spec => []TypeOK
BY InitTypeOK, StepTypeOK, PTL DEF Spec

-----------------------------------------------------------------------------
(***************************************************************************)
(* A directory that any number of processes share.  Validators come to     *)
(* disk after a list, and a list never leaves it.                          *)
(***************************************************************************)
SavedBySome(l) == Shared!Saving(l) => oneText[l] # None

TagsHaveACopy ==
  /\ onePublished \in Nat
  /\ DOMAIN onePc = Sharers /\ DOMAIN oneTag = Sharers /\ DOMAIN oneText = Sharers
  /\ oneMeta # None => oneBody # None
  /\ \A l \in Sharers :
       /\ SavedBySome(l)
       /\ oneTag[l] # None => oneBody # None
       /\ onePc[l] = "confirmed" => oneTag[l] # None
       /\ onePc[l] \in {"tagging", "tagged"} => oneBody # None

LEMMA BodyStays ==
  TagsHaveACopy /\ [Shared!Next]_sharedVars => (oneBody # None => oneBody' # None)
<1> SUFFICES ASSUME TagsHaveACopy, [Shared!Next]_sharedVars, oneBody # None
             PROVE  oneBody' # None
  OBVIOUS
<1>1. ASSUME NEW l \in Sharers, Shared!WriteList(l) PROVE oneBody' # None
  <2>1. oneText[l] # None
    BY <1>1 DEF TagsHaveACopy, SavedBySome, Shared!WriteList, Shared!Saving
  <2>2. Shared!Over(oneBody, oneText[l]) # None
    BY <2>1 DEF Shared!Over
  <2>3. QED BY <1>1, <2>2 DEF Shared!WriteList
<1>2. ASSUME NEW l \in Sharers, Shared!Rename(l) PROVE oneBody' # None
  BY <1>2 DEF Shared!Rename
<1>3. QED
  BY <1>1, <1>2
  DEF Shared!Next, Shared!Proceed, sharedVars, Shared!disk, Shared!Publish, Shared!Crash,
      Shared!Return, Shared!ReadMeta, Shared!Answer, Shared!AnswerNotModified,
      Shared!AnswerList, Shared!AnswerUnusable, Shared!ReadConfirmed, Shared!FallBack,
      Shared!OpenTemp, Shared!RenameNothing, Shared!OpenMeta, Shared!WriteMeta,
      Shared!WriteFails

LEMMA StepTagsHaveACopy == TagsHaveACopy /\ [Shared!Next]_sharedVars => TagsHaveACopy'
<1> SUFFICES ASSUME TagsHaveACopy, [Shared!Next]_sharedVars PROVE TagsHaveACopy'
  OBVIOUS
<1>0. oneBody # None => oneBody' # None
  BY BodyStays
<1> USE DEF TagsHaveACopy, SavedBySome, Shared!Saving, Shared!Goto, Shared!Return, Shared!disk
<1>1. CASE Shared!Publish
  BY <1>1 DEF Shared!Publish
<1>2. ASSUME NEW l \in Sharers, Shared!Crash(l) PROVE TagsHaveACopy'
  BY <1>2 DEF Shared!Crash
<1>3. ASSUME NEW l \in Sharers, Shared!ReadMeta(l) PROVE TagsHaveACopy'
  BY <1>3 DEF Shared!ReadMeta
<1>4. ASSUME NEW l \in Sharers, Shared!Answer(l) PROVE TagsHaveACopy'
  BY <1>4, FileTypes DEF Shared!Answer, Shared!AnswerNotModified, Shared!AnswerList
<1>5. ASSUME NEW l \in Sharers, Shared!AnswerUnusable(l) PROVE TagsHaveACopy'
  BY <1>5 DEF Shared!AnswerUnusable
<1>6. ASSUME NEW l \in Sharers, Shared!ReadConfirmed(l) \/ Shared!FallBack(l) PROVE TagsHaveACopy'
  BY <1>6 DEF Shared!ReadConfirmed, Shared!FallBack
<1>7. ASSUME NEW l \in Sharers, Shared!OpenTemp(l) PROVE TagsHaveACopy'
  BY <1>7 DEF Shared!OpenTemp
<1>8. ASSUME NEW l \in Sharers, Shared!WriteList(l) PROVE TagsHaveACopy'
  BY <1>0, <1>8 DEF Shared!WriteList
<1>9. ASSUME NEW l \in Sharers, Shared!Rename(l) PROVE TagsHaveACopy'
  BY <1>9 DEF Shared!Rename
<1>10. ASSUME NEW l \in Sharers, Shared!OpenMeta(l) PROVE TagsHaveACopy'
  BY <1>10 DEF Shared!OpenMeta
<1>11. ASSUME NEW l \in Sharers,
              Shared!RenameNothing(l) \/ Shared!WriteMeta(l) \/ Shared!WriteFails(l)
       PROVE  TagsHaveACopy'
  BY <1>11 DEF Shared!RenameNothing, Shared!WriteMeta, Shared!WriteFails
<1>12. CASE UNCHANGED sharedVars
  BY <1>12 DEF sharedVars
<1>13. QED
  BY <1>1, <1>2, <1>3, <1>4, <1>5, <1>6, <1>7, <1>8, <1>9, <1>10, <1>11, <1>12
  DEF Shared!Next, Shared!Proceed

(* However many processes share the directory and wherever they are        *)
(* killed: a 304 is answered only for a list that is there.                *)
THEOREM CopyBehindEveryConfirmation == Shared!Spec => []SharedListIsKept
<1>1. Shared!Init => TagsHaveACopy
  BY DEF Shared!Init, TagsHaveACopy, SavedBySome, Shared!Saving
<1>2. TagsHaveACopy => SharedListIsKept
  BY DEF TagsHaveACopy, SharedListIsKept, Shared!ConfirmedHasACopy
<1>3. [Shared!Next]_(Shared!vars) <=> [Shared!Next]_sharedVars
  BY DEF Shared!vars, Shared!disk, sharedVars
<1>4. QED BY <1>1, <1>2, <1>3, StepTagsHaveACopy, PTL DEF Shared!Spec

-----------------------------------------------------------------------------
(* The server alone: nobody else writes to the cache directory.            *)
Alone == \A l, k \in Loaders : l = k

(***************************************************************************)
(* Where the versions stand.  Every file is a whole list but the one that  *)
(* is being written; validators are never newer than the list beside them, *)
(* and the list is never newer than the publisher's: so a 304, which says  *)
(* that the validators are those of the publisher's list, says it of the   *)
(* list beside them.                                                       *)
(***************************************************************************)
Saved == body = None \/ body \in 1..published

Asked(l) ==
  /\ tag[l] # None => body \in Version /\ tag[l] <= body
  /\ pc[l] = "confirmed" => body = tag[l]

Written(l) ==
  /\ Saving(l) => text[l] <= published /\ (body = None \/ body <= text[l])
  /\ pc[l] = "writing" => temp = Cut /\ handle[l] = "temp"
  /\ pc[l] = "renaming" => temp = text[l]
  /\ pc[l] \in {"tagging", "tagged"} => body = text[l]

Loaded(l) == loaded[l] \in Version \cup {None, Error}

Ordered ==
  /\ Saved
  /\ meta # None => body \in Version /\ meta <= body
  /\ \A l \in Loaders : Asked(l) /\ Written(l) /\ Loaded(l)

(* Two actions read the copy, or return what was sent. *)
LEMMA ReturnKeepsOrder ==
  ASSUME Alone, TypeOK, Ordered, NEW l \in Loaders,
         NEW r \in Version \cup {None, Error}, Return(l, r),
         published' = published, body' = body, meta' = meta \/ meta' = text[l],
         meta' # meta => body = text[l]
  PROVE  Ordered'
<1>1. Saved' /\ (meta' # None => body' \in Version /\ meta' <= body')
  BY FileTypes DEF Ordered, Saved, TypeOK, Version
<1>2. ASSUME NEW k \in Loaders PROVE Asked(k)' /\ Written(k)' /\ Loaded(k)'
  <2>1. k = l
    BY DEF Alone
  <2>2. QED
    BY <2>1 DEF Return, Goto, TypeOK, Asked, Written, Loaded, Saving
<1>3. QED BY <1>1, <1>2 DEF Ordered

LEMMA StepOrdered ==
  ASSUME Alone PROVE TypeOK /\ Ordered /\ [Next]_vars => Ordered'
<1> SUFFICES ASSUME TypeOK, Ordered, [Next]_vars PROVE Ordered'
  OBVIOUS
<1>a. \A l, k \in Loaders : l = k
  BY DEF Alone
<1>b. body \in Version \cup {None} /\ published \in Nat
  BY DEF TypeOK, Ordered, Saved, Version
<1> USE <1>a, <1>b, FileTypes
<1>1. CASE Publish
  BY <1>1 DEF Publish, disk, TypeOK, Ordered, Saved, Asked, Written, Loaded, Saving, Version
<1>2. ASSUME NEW l \in Loaders, Crash(l) PROVE Ordered'
  BY <1>2, ReturnKeepsOrder DEF Crash, disk
<1>3. ASSUME NEW l \in Loaders, ReadMeta(l) PROVE Ordered'
  BY <1>3 DEF ReadMeta, Goto, disk, TypeOK, Ordered, Saved, Asked, Written, Loaded, Saving
<1>4. ASSUME NEW l \in Loaders, AnswerNotModified(l) PROVE Ordered'
  <2>1. body = tag[l]
    BY <1>4 DEF AnswerNotModified, Ordered, Saved, Asked, Version
  <2>2. QED
    BY <1>4, <2>1
    DEF AnswerNotModified, Goto, disk, TypeOK, Ordered, Saved, Asked, Written, Loaded, Saving
<1>5. ASSUME NEW l \in Loaders, AnswerList(l) PROVE Ordered'
  BY <1>5
  DEF AnswerList, Goto, disk, TypeOK, Ordered, Saved, Asked, Written, Loaded, Saving
<1>6. ASSUME NEW l \in Loaders, AnswerUnusable(l) PROVE Ordered'
  BY <1>6
  DEF AnswerUnusable, Goto, disk, TypeOK, Ordered, Saved, Asked, Written, Loaded, Saving
<1>7. ASSUME NEW l \in Loaders, ReadConfirmed(l) \/ FallBack(l) PROVE Ordered'
  <2>1. (IF body = None THEN Error ELSE body) \in Version \cup {None, Error}
    OBVIOUS
  <2>2. QED BY <1>7, <2>1, ReturnKeepsOrder DEF ReadConfirmed, FallBack, disk
<1>8. ASSUME NEW l \in Loaders, OpenTemp(l) PROVE Ordered'
  BY <1>8 DEF OpenTemp, Goto, TypeOK, Ordered, Saved, Asked, Written, Loaded, Saving
<1>9. ASSUME NEW l \in Loaders, WriteList(l) PROVE Ordered'
  <2>1. temp = Cut /\ handle[l] = "temp" /\ text[l] \in Version
    BY <1>9 DEF WriteList, Ordered, Written, TypeOK, Saving
  <2>2. temp' = text[l] /\ body' = body
    BY <1>9, <2>1 DEF WriteList, Over
  <2>3. QED
    BY <1>9, <2>2
    DEF WriteList, Goto, TypeOK, Ordered, Saved, Asked, Written, Loaded, Saving
<1>10. ASSUME NEW l \in Loaders, Rename(l) PROVE Ordered'
  <2>1. /\ temp = text[l] /\ text[l] \in Version /\ text[l] <= published
        /\ body = None \/ body <= text[l]
    BY <1>10 DEF Rename, Ordered, Written, TypeOK, Saving
  <2>2. /\ body' = text[l] /\ UNCHANGED <<published, meta, tag, text, loaded>>
        /\ pc' = [pc EXCEPT ![l] = "tagging"]
    BY <1>10, <2>1 DEF Rename, Goto
  <2>3. Saved' /\ (meta' # None => body' \in Version /\ meta' <= body')
    BY <2>1, <2>2 DEF Ordered, Saved, TypeOK, Version
  <2>4. Asked(l)' /\ Written(l)' /\ Loaded(l)'
    BY <1>10, <2>1, <2>2
    DEF Rename, TypeOK, Ordered, Asked, Written, Loaded, Saving, Version
  <2>5. QED BY <2>3, <2>4 DEF Ordered
<1>11. ASSUME NEW l \in Loaders, OpenMeta(l) PROVE Ordered'
  BY <1>11 DEF OpenMeta, Goto, TypeOK, Ordered, Saved, Asked, Written, Loaded, Saving
<1>12. ASSUME NEW l \in Loaders, RenameNothing(l) \/ WriteMeta(l) \/ WriteFails(l)
       PROVE  Ordered'
  <2>1. text[l] \in Version
    BY <1>12 DEF TypeOK, RenameNothing, WriteMeta, WriteFails, Saving
  <2>2. pc[l] = "tagged" => body = text[l]
    BY DEF Ordered, Written
  <2>3. QED
    BY <1>12, <2>1, <2>2, ReturnKeepsOrder DEF RenameNothing, WriteMeta, WriteFails, disk
<1>13. CASE UNCHANGED vars
  BY <1>13 DEF vars, Ordered, Saved, Asked, Written, Loaded, Saving
<1>14. QED
  BY <1>1, <1>2, <1>3, <1>4, <1>5, <1>6, <1>7, <1>8, <1>9, <1>10, <1>11, <1>12, <1>13
  DEF Next, Proceed, Answer

LEMMA InitOrdered == Init => Ordered
BY FileTypes DEF Init, Ordered, Saved, Asked, Written, Loaded, Saving

(* Killed anywhere, with a disk that fails anywhere, the server never      *)
(* loads half a list.                                                      *)
THEOREM WholeLists == ASSUME Alone PROVE Spec => []NoHalfListIsLoaded
<1>1. Ordered => NoHalfListIsLoaded
  BY FileTypes DEF Ordered, Loaded, NoHalfListIsLoaded
<1>2. TypeOK /\ Ordered /\ [Next]_vars => Ordered'
  BY StepOrdered
<1>3. QED BY <1>1, <1>2, InitTypeOK, StepTypeOK, InitOrdered, PTL DEF Spec

(* ... and what a 304 confirms is the list it has.                         *)
THEOREM ConfirmationsHold == ASSUME Alone PROVE Spec => []ConfirmedIsOnDisk
<1>1. Ordered => ConfirmedIsOnDisk
  BY DEF Ordered, Asked, ConfirmedIsOnDisk
<1>2. TypeOK /\ Ordered /\ [Next]_vars => Ordered'
  BY StepOrdered
<1>3. QED BY <1>1, <1>2, InitTypeOK, StepTypeOK, InitOrdered, PTL DEF Spec

-----------------------------------------------------------------------------
(* With a disk that takes what is written, what a process has loaded is    *)
(* never newer than the copy on disk, which is what it may fall back to.   *)
Remembered ==
  \A l \in Loaders : loaded[l] \in Version => body \in Version /\ loaded[l] <= body

(* While a process runs, the copy on disk only gets newer, and what a load *)
(* returns is the copy.                                                    *)
LEMMA CopyAdvances ==
  ASSUME Alone, ~WriteErrors, TypeOK, Ordered, [Next]_vars
  PROVE  /\ body \in Version => body' \in Version /\ body <= body'
         /\ \A l \in Loaders :
              loaded'[l] # loaded[l] => loaded'[l] \in {None, Error, body'}
<1>a. \A l, k \in Loaders : l = k
  BY DEF Alone
<1>b. loaded \in [Loaders -> File \cup {Error}] /\ (body \in Version => body <= body)
  BY FileTypes DEF TypeOK
<1> USE <1>a, <1>b, FileTypes
<1>1. CASE Publish
  BY <1>1 DEF Publish, disk
<1>2. ASSUME NEW l \in Loaders, Crash(l)
      PROVE /\ body' = body
            /\ loaded' = [loaded EXCEPT ![l] = None]
  BY <1>2 DEF Crash, Return, disk
<1>3. ASSUME NEW l \in Loaders,
             \/ ReadMeta(l) \/ Answer(l) \/ AnswerUnusable(l) \/ OpenTemp(l) \/ OpenMeta(l)
      PROVE body' = body /\ loaded' = loaded
  BY <1>3 DEF ReadMeta, Answer, AnswerNotModified, AnswerList, AnswerUnusable,
              OpenTemp, OpenMeta, disk
<1>4. ASSUME NEW l \in Loaders, ReadConfirmed(l) \/ FallBack(l)
      PROVE /\ body' = body
            /\ loaded' = [loaded EXCEPT ![l] = IF body = None THEN Error ELSE body]
  BY <1>4 DEF ReadConfirmed, FallBack, Return, disk
<1>5. ASSUME NEW l \in Loaders, WriteList(l) PROVE body' = body /\ loaded' = loaded
  BY <1>5 DEF WriteList, Ordered, Written
<1>6. ASSUME NEW l \in Loaders, Rename(l)
      PROVE /\ body \in Version => body' \in Version /\ body <= body'
            /\ loaded' = loaded
  BY <1>6 DEF Rename, Ordered, Written, TypeOK, Saving
<1>7. ASSUME NEW l \in Loaders, RenameNothing(l) PROVE FALSE
  BY <1>7 DEF RenameNothing, Ordered, Written, TypeOK, Saving
<1>8. ASSUME NEW l \in Loaders, WriteMeta(l)
      PROVE /\ body' = body
            /\ loaded' = [loaded EXCEPT ![l] = body]
  BY <1>8 DEF WriteMeta, Return, Ordered, Written
<1>9. ASSUME NEW l \in Loaders PROVE ~WriteFails(l)
  BY DEF WriteFails
<1>10. CASE UNCHANGED vars
  BY <1>10 DEF vars
<1>11. ASSUME NEW l \in Loaders, Proceed(l) \/ Crash(l)
       PROVE /\ body \in Version => body' \in Version /\ body <= body'
             /\ \A k \in Loaders :
                  loaded'[k] # loaded[k] => loaded'[k] \in {None, Error, body'}
  <2>1. CASE Rename(l)
    BY <2>1, <1>6
  <2>2. CASE \/ Crash(l) \/ ReadConfirmed(l) \/ FallBack(l) \/ WriteMeta(l)
    BY <2>2, <1>2, <1>4, <1>8, <1>b
  <2>3. CASE \/ ReadMeta(l) \/ Answer(l) \/ AnswerUnusable(l) \/ OpenTemp(l)
             \/ OpenMeta(l) \/ WriteList(l)
    BY <2>3, <1>3, <1>5, <1>b
  <2>4. QED BY <1>7, <1>9, <1>11, <2>1, <2>2, <2>3 DEF Proceed
<1>12. QED BY <1>1, <1>10, <1>11 DEF Next, Publish

LEMMA StepRemembered ==
  ASSUME Alone, ~WriteErrors
  PROVE  TypeOK /\ Ordered /\ Remembered /\ [Next]_vars => Remembered'
<1> SUFFICES ASSUME TypeOK, Ordered, Remembered, [Next]_vars, NEW l \in Loaders,
                    loaded'[l] \in Version
             PROVE  body' \in Version /\ loaded'[l] <= body'
  BY DEF Remembered
<1>1. /\ body \in Version => body' \in Version /\ body <= body'
      /\ loaded'[l] # loaded[l] => loaded'[l] \in {None, Error, body'}
  BY CopyAdvances
<1>2. CASE loaded'[l] = loaded[l]
  <2>1. body \in Version /\ loaded[l] <= body /\ loaded[l] \in Version
    BY <1>2 DEF Remembered
  <2>2. body' \in Version /\ body <= body'
    BY <1>1, <2>1
  <2>3. loaded[l] \in Nat /\ body \in Nat /\ body' \in Nat
    BY <2>1, <2>2, FileTypes
  <2>4. QED BY <1>2, <2>1, <2>2, <2>3
<1>3. CASE loaded'[l] # loaded[l]
  <2>1. loaded'[l] = body'
    BY <1>1, <1>3, FileTypes
  <2>2. loaded'[l] \in Nat
    BY FileTypes
  <2>3. QED BY <2>1, <2>2
<1>4. QED BY <1>2, <1>3

(* The rules of a running server are never replaced by older ones, as long *)
(* as the disk takes what is written.                                      *)
THEOREM NeverOlderRules ==
  ASSUME Alone, ~WriteErrors PROVE Spec => RunningListNeverGoesBack
<1> DEFINE Step == \A l \in Loaders :
                     loaded[l] \in Version /\ loaded'[l] \in Version
                       => loaded'[l] >= loaded[l]
<1>1. TypeOK /\ Ordered /\ [Next]_vars => Ordered'
  BY StepOrdered
<1>2. TypeOK /\ Ordered /\ Remembered /\ [Next]_vars => Remembered'
  BY StepRemembered
<1>3. Init => Remembered
  BY FileTypes DEF Init, Remembered
<1>4. TypeOK /\ Ordered /\ Remembered /\ [Next]_vars => [Step]_vars
  <2> SUFFICES ASSUME TypeOK, Ordered, Remembered, [Next]_vars, NEW l \in Loaders,
                      loaded[l] \in Version, loaded'[l] \in Version
               PROVE  loaded'[l] >= loaded[l]
    BY DEF Step
  <2>1. body \in Version /\ loaded[l] <= body
    BY DEF Remembered
  <2>2. /\ body' \in Version /\ body <= body'
        /\ loaded'[l] # loaded[l] => loaded'[l] \in {None, Error, body'}
    BY <2>1, CopyAdvances
  <2>3. loaded'[l] # loaded[l] => loaded'[l] = body'
    BY <2>2, FileTypes
  <2>4. loaded[l] \in Nat /\ body \in Nat /\ body' \in Nat
    BY <2>1, <2>2, FileTypes
  <2>5. QED BY <2>1, <2>2, <2>3, <2>4
<1> HIDE DEF Step
<1>5. Spec => [][Step]_vars
  BY <1>1, <1>2, <1>3, <1>4, InitTypeOK, StepTypeOK, InitOrdered, PTL DEF Spec
<1>6. QED BY <1>5 DEF Step, RunningListNeverGoesBack
=============================================================================
