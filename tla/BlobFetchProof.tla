---------------------------- MODULE BlobFetchProof ----------------------------
(***************************************************************************)
(* Theorems about BlobFetch, for any downloads, files, sizes and faults.   *)
(***************************************************************************)
EXTENDS BlobFetch, TLAPS

USE BlobFetchAssumption

-------------------------------------------------------------------------------
(* What a step of one download leaves alone *)

\* Every point of a download is in one group only.
LEMMA PointGroups ==
    /\ Locked \subseteq Points /\ Linking \subseteq Points /\ Ended \subseteq Points
    /\ Locked \cap Ended = {} /\ Linking \cap Ended = {} /\ Linking \cap Locked = {}
    /\ {"next", "locking", "waiting"} \cap (Locked \union Linking \union Ended) = {}
    /\ "done" \in Ended
BY DEF Locked, Linking, Ended, Points

\* The file that a download works on is one of the files.
LEMMA NowIsFile ==
    ASSUME Inv, NEW d \in Download
    PROVE  /\ Now(d) \in File
           /\ task[d] \in Task
           /\ task[d].n \in 1 .. Len(Plan[d])
           /\ Plan[d] \in Seq(File)
BY DEF Inv, TypeOK, PassedComplete, Now

\* Go changes the point only.
LEMMA GoFacts ==
    ASSUME TypeOK, NEW d \in Download, NEW point \in Points, Go(d, point)
    PROVE  /\ task' \in [Download -> Task]
           /\ \A e \in Download \ {d} : task'[e] = task[e]
           /\ task'[d].at = point /\ task'[d].n = task[d].n
           /\ task'[d].hash = task[d].hash /\ task'[d].pos = task[d].pos
           /\ task'[d].kept = task[d].kept
<1>1. task \in [Download -> Task] /\ task[d] \in Task
  BY DEF TypeOK
<1>2. [task[d] EXCEPT !.at = point] \in Task
  BY <1>1 DEF Task
<1>3. task' = [task EXCEPT ![d] = [task[d] EXCEPT !.at = point]]
  BY DEF Go
<1>4. task'[d] = [task[d] EXCEPT !.at = point]
  BY <1>3, <1>1
<1> QED
  BY <1>1, <1>2, <1>3, <1>4 DEF Task

\* Fresh sets every field.
LEMMA FreshFacts ==
    ASSUME TypeOK, NEW d \in Download, NEW point \in Points, NEW n \in Nat \ {0},
           task' = [task EXCEPT ![d] = Fresh(point, n)]
    PROVE  /\ task' \in [Download -> Task]
           /\ \A e \in Download \ {d} : task'[e] = task[e]
           /\ task'[d].at = point /\ task'[d].n = n
<1>1. task \in [Download -> Task]
  BY DEF TypeOK
<1>2. Fresh(point, n) \in Task
  BY DEF Fresh, Task, Content
<1>3. task'[d] = Fresh(point, n)
  BY <1>1
<1> QED
  BY <1>1, <1>2, <1>3 DEF Fresh

\* What a step of d does with the lock of its file: nothing, release or take it.
HolderMoves(d) ==
    \/ /\ holder' = holder
       /\ task'[d].at \in Locked <=> task[d].at \in Locked
       /\ task[d].at \in Locked => task'[d].n = task[d].n
    \/ /\ task[d].at \in Locked /\ task'[d].at \notin Locked
       /\ holder' = [holder EXCEPT ![Now(d)] = None]
    \/ /\ holder[Now(d)] = None /\ task[d].at \notin Locked /\ task'[d].at \in Locked
       /\ task'[d].n = task[d].n
       /\ holder' = [holder EXCEPT ![Now(d)] = d]

\* Then the locks stay with those who are past them.
LEMMA LockKeeps ==
    ASSUME Inv, NEW d \in Download, \A e \in Download \ {d} : task'[e] = task[e],
           HolderMoves(d)
    PROVE  LockHeld'
<1> DEFINE next(e) == Plan[e][task'[e].n]
<1>1. holder \in [File -> Download \union {None}] /\ None \notin Download
  BY DEF Inv, TypeOK
<1>2. \A e \in Download : Now(e) \in File
  BY NowIsFile
<1>3. \A e \in Download \ {d} : next(e) = Now(e)
  BY DEF Now
<1>4. task'[d].n = task[d].n => next(d) = Now(d)
  BY DEF Now
<1>5. /\ \A e \in Download : task[e].at \in Locked => holder[Now(e)] = e
      /\ \A f \in File : holder[f] # None =>
            holder[f] \in Download /\ task[holder[f]].at \in Locked /\ Now(holder[f]) = f
  BY <1>1 DEF Inv, LockHeld
<1> HIDE DEF next
<1>6. /\ \A e \in Download : task'[e].at \in Locked => holder'[next(e)] = e
      /\ \A f \in File : holder'[f] # None =>
            task'[holder'[f]].at \in Locked /\ next(holder'[f]) = f
  <2>1. CASE /\ holder' = holder
             /\ task'[d].at \in Locked <=> task[d].at \in Locked
             /\ task[d].at \in Locked => task'[d].n = task[d].n
    BY <2>1, <1>2, <1>3, <1>4, <1>5
  <2>2. CASE /\ task[d].at \in Locked /\ task'[d].at \notin Locked
             /\ holder' = [holder EXCEPT ![Now(d)] = None]
    <3>1. \A f \in File : holder'[f] = IF f = Now(d) THEN None ELSE holder[f]
      BY <2>2, <1>1
    <3> QED
      BY <2>2, <3>1, <1>1, <1>2, <1>3, <1>5
  <2>3. CASE /\ holder[Now(d)] = None /\ task[d].at \notin Locked /\ task'[d].at \in Locked
             /\ task'[d].n = task[d].n
             /\ holder' = [holder EXCEPT ![Now(d)] = d]
    <3>1. \A f \in File : holder'[f] = IF f = Now(d) THEN d ELSE holder[f]
      BY <2>3, <1>1
    <3>2. \A e \in Download \ {d} : task[e].at \in Locked => Now(e) # Now(d)
      BY <2>3, <1>1, <1>5
    <3>3. ASSUME NEW e \in Download, task'[e].at \in Locked
          PROVE  holder'[next(e)] = e
      <4>1. CASE e = d
        BY <4>1, <2>3, <3>1, <1>2, <1>4
      <4>2. CASE e # d
        <5>1. next(e) = Now(e) /\ task[e].at \in Locked /\ Now(e) # Now(d)
          BY <4>2, <3>3, <3>2, <1>3
        <5> QED
          BY <5>1, <3>1, <1>2, <1>5
      <4> QED
        BY <4>1, <4>2
    <3>4. ASSUME NEW f \in File, holder'[f] # None
          PROVE  task'[holder'[f]].at \in Locked /\ next(holder'[f]) = f
      <4>1. CASE f = Now(d)
        BY <4>1, <2>3, <3>1, <1>4
      <4>2. CASE f # Now(d)
        <5>1. holder'[f] = holder[f] /\ holder[f] \in Download \ {d}
          BY <4>2, <2>3, <3>1, <3>4, <1>5
        <5> QED
          BY <5>1, <3>4, <1>3, <1>5
      <4> QED
        BY <4>1, <4>2
    <3> QED
      BY <3>3, <3>4
  <2> QED
    BY <2>1, <2>2, <2>3 DEF HolderMoves
<1> QED
  BY <1>6 DEF LockHeld, Now, next

\* A step of d that touches the file at hand only, and its part only under the
\* lock, leaves the other downloads what they know.
LEMMA OthersKeep ==
    ASSUME Inv, NEW d \in Download, NEW e \in Download \ {d}, task'[e] = task[e],
           \A f \in File \ {Now(d)} : part'[f] = part[f],
           part'[Now(d)] = part[Now(d)] \/ task[d].at \in Locked,
           \A f \in File : Complete(f) => Complete(f)'
    PROVE  KnowsPart(e)' /\ PassedComplete(e)'
<1>1. KnowsPart(e) /\ PassedComplete(e) /\ Now(e) \in File /\ Now(d) \in File
  BY NowIsFile DEF Inv
<1>2. Plan[e] \in Seq(File) /\ task[e].n \in DOMAIN Plan[e] /\ task[e].n \in Nat
  BY NowIsFile
<1>3. ASSUME task[e].at \in {"request", "stream", "verify", "rename"}
      PROVE  part'[Now(e)] = part[Now(e)]
  <2>1. task[e].at \in Locked
    BY <1>3 DEF Locked
  <2>2. holder[Now(e)] = e
    BY <2>1 DEF Inv, LockHeld
  <2>3. task[d].at \in Locked => holder[Now(d)] = d
    BY DEF Inv, LockHeld
  <2> QED
    BY <2>2, <2>3, <1>1
<1>4. KnowsPart(e)'
  <2>1. Now(e)' = Now(e)
    BY DEF Now
  <2>2. task[e].at \in {"request", "stream", "verify", "rename"} =>
           task[e].hash = (IF part'[Now(e)] = None THEN <<>> ELSE part'[Now(e)])
    BY <1>1, <1>3 DEF KnowsPart, PartOf
  <2>3. At(e, "stream") =>
          /\ part'[Now(e)] # None
          /\ task[e].pos = Len(task[e].hash)
          /\ task[e].kept <= Len(task[e].hash)
    BY <1>1, <1>3 DEF KnowsPart, At
  <2>4. /\ task[e].at \in {"verify", "rename"} => Len(task[e].hash) = Size[Now(e)]
        /\ At(e, "rename") /\ Now(e) \in Hashed => task[e].hash = Right(Now(e))
    BY <1>1 DEF KnowsPart
  <2> QED
    BY <2>1, <2>2, <2>3, <2>4 DEF KnowsPart, PartOf, At, Right
<1>5. PassedComplete(e)'
  <2>1. \A n \in DOMAIN Plan[e] : Plan[e][n] \in File
    BY <1>2
  <2>2. \A n \in DOMAIN Plan[e] : Complete(Plan[e][n]) => Complete(Plan[e][n])'
    BY <2>1
  <2>3. 1 .. task[e].n - 1 \subseteq DOMAIN Plan[e]
    BY <1>2
  <2> QED
    BY <1>1, <2>2, <2>3 DEF PassedComplete, Running
<1> QED
  BY <1>4, <1>5

\* A step of d keeps the invariant, if it leaves the other downloads and their
\* files alone and keeps what concerns its own.
LEMMA StepKeeps ==
    ASSUME Inv, TypeOK', NEW d \in Download, NEW g \in File, g = Now(d),
           \A e \in Download \ {d} : task'[e] = task[e],
           \A f \in File \ {g} : part'[f] = part[f],
           part'[g] = part[g] \/ task[d].at \in Locked,
           InPlace(PartOf(g)'),
           blob' = blob \/
             /\ \A f \in File \ {g} : blob'[f] = blob[f]
             /\ Len(blob'[g]) = Size[g] /\ InPlace(blob'[g])
             /\ g \in Hashed => blob'[g] = Right(g),
           \A f \in File : Complete(f) => Complete(f)',
           HolderMoves(d),
           KnowsPart(d)', PassedComplete(d)',
           \A f \in linked' : Complete(f)'
    PROVE  Inv'
<1>2. LockHeld'
  BY LockKeeps
<1>3. \A e \in Download : KnowsPart(e)' /\ PassedComplete(e)'
  BY OthersKeep
<1>4. DiskRight'
  <2>1. DiskRight
    BY DEF Inv
  <2>2. \A f \in File : InPlace(PartOf(f)')
    <3>1. ASSUME NEW f \in File, f # g
          PROVE  InPlace(PartOf(f)')
      <4>1. InPlace(PartOf(f)) /\ part'[f] = part[f]
        BY <2>1, <3>1 DEF DiskRight
      <4>2. PartOf(f)' = PartOf(f)
        BY <4>1 DEF PartOf
      <4> QED
        BY <4>1, <4>2
    <3> QED
      BY <3>1
  <2>3. \A f \in File : blob'[f] # None =>
          Len(blob'[f]) = Size[f] /\ InPlace(blob'[f]) /\ (f \in Hashed => blob'[f] = Right(f))
    BY <2>1 DEF DiskRight
  <2> QED
    BY <2>2, <2>3 DEF DiskRight, InPlace, Right
<1> QED
  BY <1>2, <1>3, <1>4 DEF Inv

\* The same for a step that leaves the disk alone.
LEMMA DiskKept ==
    ASSUME Inv, TypeOK', NEW d \in Download,
           \A e \in Download \ {d} : task'[e] = task[e],
           UNCHANGED disk,
           HolderMoves(d),
           KnowsPart(d)', PassedComplete(d)'
    PROVE  Inv'
<1>1. part' = part /\ blob' = blob /\ linked' = linked
  BY DEF disk
<1>2. \A f \in File : PartOf(f)' = PartOf(f) /\ (Complete(f) <=> Complete(f)')
  BY <1>1 DEF PartOf, Complete
<1>3. \A f \in linked : f \in File
  BY DEF Inv, TypeOK
<1>4. PICK g \in File : g = Now(d)
  BY NowIsFile
<1>5. InPlace(PartOf(g)')
  <2>1. InPlace(PartOf(g))
    BY DEF Inv, DiskRight
  <2> QED
    BY <2>1, <1>2
<1>6. \A f \in linked' : Complete(f)'
  BY <1>1, <1>2, <1>3 DEF Inv
<1> QED
  BY <1>1, <1>2, <1>4, <1>5, <1>6, StepKeeps

\* A download that stays with its file, or ends, has passed what it passed.
LEMMA SameFile ==
    ASSUME Inv, NEW d \in Download,
           \A f \in File : Complete(f) => Complete(f)',
           task'[d].n = task[d].n,
           task'[d].at \in Linking => task[d].at \in Linking,
           task'[d].at # "done",
           task'[d].at \notin Ended => Running(d)
    PROVE  PassedComplete(d)'
<1>1. PassedComplete(d) /\ Plan[d] \in Seq(File) /\ task[d].n \in 1 .. Len(Plan[d])
  BY NowIsFile DEF Inv
<1>2. \A n \in DOMAIN Plan[d] : Complete(Plan[d][n]) => Complete(Plan[d][n])'
  BY <1>1
<1>3. 1 .. task[d].n - 1 \subseteq DOMAIN Plan[d] /\ task[d].n \in DOMAIN Plan[d]
  BY <1>1
<1> QED
  BY <1>1, <1>2, <1>3 DEF PassedComplete, Running

\* A download whose file is there goes on to the next, or to linking.
LEMMA NextFileFacts ==
    ASSUME Inv, NEW d \in Download, NextFile(d),
           \A f \in File : Complete(f) => Complete(f)',
           NEW g \in File, g = Now(d), Complete(g)',
           task[d].at \in Locked \union {"next"}
    PROVE  /\ task' \in [Download -> Task]
           /\ \A e \in Download \ {d} : task'[e] = task[e]
           /\ task'[d].at \in {"next", "link"}
           /\ PassedComplete(d)' /\ KnowsPart(d)'
<1>1. PassedComplete(d) /\ Plan[d] \in Seq(File) /\ task[d].n \in 1 .. Len(Plan[d]) /\ TypeOK
  BY NowIsFile DEF Inv
<1>2. \A n \in DOMAIN Plan[d] : Complete(Plan[d][n]) => Complete(Plan[d][n])'
  BY <1>1
<1>3. Running(d)
  BY DEF Running, Locked, Ended
<1>4. \A n \in 1 .. task[d].n : Complete(Plan[d][n])'
  <2>1. \A n \in 1 .. task[d].n - 1 : Complete(Plan[d][n])'
    BY <1>1, <1>2, <1>3 DEF PassedComplete
  <2>2. g = Plan[d][task[d].n]
    BY DEF Now
  <2>3. \A n \in 1 .. task[d].n : n \in 1 .. task[d].n - 1 \/ Plan[d][n] = g
    BY <1>1, <2>2
  <2> QED
    BY <2>1, <2>3
<1>5. CASE task[d].n < Len(Plan[d])
  <2>1. task' = [task EXCEPT ![d] = Fresh("next", task[d].n + 1)]
    BY <1>5 DEF NextFile
  <2>2. "next" \in Points /\ task[d].n + 1 \in Nat \ {0}
    BY <1>1 DEF Points
  <2>3. /\ task' \in [Download -> Task]
        /\ \A e \in Download \ {d} : task'[e] = task[e]
        /\ task'[d].at = "next" /\ task'[d].n = task[d].n + 1
    BY <2>1, <2>2, <1>1, FreshFacts
  <2>4. KnowsPart(d)'
    BY <2>3 DEF KnowsPart, At
  <2>5. PassedComplete(d)'
    <3>1. task'[d].n \in DOMAIN Plan[d] /\ 1 .. task'[d].n - 1 = 1 .. task[d].n
      BY <2>3, <1>1, <1>5
    <3> QED
      BY <3>1, <2>3, <1>4 DEF PassedComplete, Linking
  <2> QED
    BY <2>3, <2>4, <2>5
<1>6. CASE ~(task[d].n < Len(Plan[d]))
  <2>1. task' = [task EXCEPT ![d] = Fresh("link", 1)]
    BY <1>6 DEF NextFile
  <2>2. "link" \in Points /\ 1 \in Nat \ {0}
    BY DEF Points, Linking
  <2>3. /\ task' \in [Download -> Task]
        /\ \A e \in Download \ {d} : task'[e] = task[e]
        /\ task'[d].at = "link" /\ task'[d].n = 1
    BY <2>1, <2>2, <1>1, FreshFacts
  <2>4. KnowsPart(d)'
    BY <2>3 DEF KnowsPart, At
  <2>5. task[d].n = Len(Plan[d]) /\ 1 \in DOMAIN Plan[d] /\ DOMAIN Plan[d] = 1 .. Len(Plan[d])
    BY <1>1, <1>6
  <2>6. PassedComplete(d)'
    BY <2>3, <2>5, <1>4 DEF PassedComplete, Linking
  <2> QED
    BY <2>3, <2>4, <2>6
<1> QED
  BY <1>5, <1>6

\* The facts of a step that does not touch the disk.
LEMMA SameDisk ==
    ASSUME Inv, UNCHANGED disk
    PROVE  /\ blob' = blob /\ part' = part /\ old' = old /\ linked' = linked
           /\ \A f \in File : PartOf(f)' = PartOf(f)
           /\ \A f \in File : Complete(f) => Complete(f)'
BY DEF disk, PartOf, Complete

\* A step to another point keeps the invariant, if the new point asks for no
\* more than is known.
LEMMA GoKeeps ==
    ASSUME Inv, NEW d \in Download, NEW point \in Points, Go(d, point),
           UNCHANGED disk, UNCHANGED <<holder, cancel, runs>>, trouble' \in BOOLEAN,
           point \in Locked <=> task[d].at \in Locked,
           point \notin {"request", "stream"},
           point \in {"verify", "rename"} =>
              task[d].hash = PartOf(Now(d)) /\ Len(task[d].hash) = Size[Now(d)],
           point = "rename" /\ Now(d) \in Hashed => task[d].hash = Right(Now(d)),
           point \in Linking => task[d].at \in Linking, point # "done",
           point \notin Ended => Running(d)
    PROVE  Inv'
<1>1. TypeOK
  BY DEF Inv
<1>2. /\ task' \in [Download -> Task]
      /\ \A e \in Download \ {d} : task'[e] = task[e]
      /\ task'[d].at = point /\ task'[d].n = task[d].n
      /\ task'[d].hash = task[d].hash
  BY <1>1, GoFacts
<1>3. TypeOK'
  BY <1>1, <1>2, SameDisk DEF TypeOK
<1>4. HolderMoves(d)
  BY <1>2 DEF HolderMoves
<1>5. PassedComplete(d)'
  BY <1>2, SameDisk, SameFile
<1>6. KnowsPart(d)'
  <2>1. Now(d)' = Now(d)
    BY <1>2 DEF Now
  <2>2. PartOf(Now(d))' = PartOf(Now(d))
    BY <2>1, SameDisk DEF PartOf
  <2> QED
    BY <1>2, <2>1, <2>2 DEF KnowsPart, At, Right
<1> QED
  BY <1>2, <1>3, <1>4, <1>5, <1>6, DiskKept

\* A download that gives up, or is paused, drops its lock and leaves what is in
\* its place in the part.
LEMMA LeaveKeeps ==
    ASSUME Inv, NEW d \in Download, NEW point \in Ended \ {"done"}, Leave(d, point),
           task[d].at \in Locked,
           NEW g \in File, g = Now(d),
           part' \in [File -> Content \union {None}],
           \A f \in File \ {g} : part'[f] = part[f],
           InPlace(PartOf(g)'),
           UNCHANGED <<blob, linked>>, old' \in [File -> {"absent", "whole", "cut"}],
           trouble' \in BOOLEAN
    PROVE  Inv'
<1>1. TypeOK /\ task[d].n \in Nat \ {0} /\ point \in Points
  BY NowIsFile DEF Inv, Points, Ended
<1>2. /\ task' \in [Download -> Task]
      /\ \A e \in Download \ {d} : task'[e] = task[e]
      /\ task'[d].at = point /\ task'[d].n = task[d].n
  BY <1>1, FreshFacts DEF Leave
<1>3. holder' = [holder EXCEPT ![Now(d)] = None] /\ UNCHANGED <<cancel, runs>>
  BY DEF Leave, Unlock, Keep
<1>4. TypeOK'
  BY <1>1, <1>2, <1>3 DEF TypeOK
<1>5. HolderMoves(d)
  BY <1>2, <1>3 DEF HolderMoves, Ended, Locked
<1>6. \A f \in File : Complete(f) => Complete(f)'
  BY DEF Complete
<1>7. task'[d].at \in Ended /\ task'[d].at \notin Linking
  BY <1>2 DEF Ended, Linking
<1>8. PassedComplete(d)'
  BY <1>2, <1>6, <1>7, SameFile
<1>9. KnowsPart(d)'
  BY <1>7 DEF KnowsPart, At, Ended
<1>10. \A f \in linked' : Complete(f)'
  BY <1>1, <1>6 DEF Inv, TypeOK
<1> QED
  BY <1>2, <1>4, <1>5, <1>6, <1>8, <1>9, <1>10, StepKeeps

\* A step under the lock keeps the invariant, if what it leaves in the part is in
\* its place and known.
LEMMA PartKeeps ==
    ASSUME Inv, NEW d \in Download, NEW g \in File, g = Now(d),
           task[d].at \in Locked, task'[d].at \in Locked,
           task' \in [Download -> Task], task'[d].n = task[d].n,
           \A e \in Download \ {d} : task'[e] = task[e],
           UNCHANGED <<blob, linked, holder, cancel, runs>>,
           trouble' \in BOOLEAN, old' \in [File -> {"absent", "whole", "cut"}],
           part' \in [File -> Content \union {None}],
           \A f \in File \ {g} : part'[f] = part[f],
           InPlace(PartOf(g)'),
           KnowsPart(d)'
    PROVE  Inv'
<1>1. TypeOK' /\ TypeOK
  BY DEF TypeOK, Inv
<1>2. HolderMoves(d)
  BY DEF HolderMoves
<1>3. \A f \in File : Complete(f) => Complete(f)'
  BY DEF Complete
<1>4. PassedComplete(d)'
  <2>1. Running(d) /\ task'[d].at \notin Linking /\ task'[d].at # "done"
    BY PointGroups DEF Running
  <2> QED
    BY <2>1, <1>3, SameFile
<1>5. \A f \in linked' : Complete(f)'
  BY <1>1, <1>3 DEF Inv, TypeOK
<1> QED
  BY <1>1, <1>2, <1>3, <1>4, <1>5, StepKeeps

-------------------------------------------------------------------------------
(* The steps for the lock *)

LEMMA LookKeeps == ASSUME Inv, NEW d \in Download, Look(d) PROVE Inv'
<1>1. /\ UNCHANGED disk /\ UNCHANGED <<holder, trouble, cancel, runs>>
      /\ task[d].at = "next" /\ TypeOK
  BY DEF Look, Quiet, Keep, At, Inv
<1>2. CASE Complete(Now(d)) /\ NextFile(d)
  <2>1. PICK g \in File : g = Now(d)
    BY NowIsFile
  <2>2. /\ task' \in [Download -> Task]
        /\ \A e \in Download \ {d} : task'[e] = task[e]
        /\ task'[d].at \in {"next", "link"}
        /\ PassedComplete(d)' /\ KnowsPart(d)'
    BY <1>1, <1>2, <2>1, SameDisk, NextFileFacts
  <2>3. TypeOK'
    BY <1>1, <2>2, SameDisk DEF TypeOK
  <2>4. HolderMoves(d)
    BY <1>1, <2>2 DEF HolderMoves, Locked
  <2> QED
    BY <1>1, <2>2, <2>3, <2>4, DiskKept
<1>3. CASE Go(d, "locking")
  BY <1>1, <1>3, GoKeeps DEF Points, Locked, Linking, Ended, Running, TypeOK
<1> QED
  BY <1>2, <1>3 DEF Look

LEMMA TryLockKeeps == ASSUME Inv, NEW d \in Download, TryLock(d) PROVE Inv'
<1>1. UNCHANGED disk /\ UNCHANGED <<trouble, cancel, runs>> /\ task[d].at = "locking" /\ TypeOK
  BY DEF TryLock, Keep, At, Inv
<1>2. CASE /\ holder[Now(d)] = None /\ Go(d, "locked")
           /\ holder' = [holder EXCEPT ![Now(d)] = d]
  <2>1. /\ task' \in [Download -> Task]
        /\ \A e \in Download \ {d} : task'[e] = task[e]
        /\ task'[d].at = "locked" /\ task'[d].n = task[d].n
    BY <1>1, <1>2, GoFacts DEF Points, Locked
  <2>2. TypeOK'
    BY <1>1, <1>2, <2>1, SameDisk DEF TypeOK
  <2>3. HolderMoves(d)
    BY <1>1, <1>2, <2>1 DEF HolderMoves, Locked
  <2>4. PassedComplete(d)'
    BY <1>1, <2>1, SameDisk, SameFile DEF Linking, Running, Ended
  <2>5. KnowsPart(d)'
    BY <2>1 DEF KnowsPart, At
  <2> QED
    BY <1>1, <2>1, <2>2, <2>3, <2>4, <2>5, DiskKept
<1>3. CASE Go(d, "waiting") /\ UNCHANGED holder
  BY <1>1, <1>3, GoKeeps DEF Points, Locked, Linking, Ended, Running, TypeOK
<1> QED
  BY <1>2, <1>3 DEF TryLock

LEMMA TryAgainKeeps == ASSUME Inv, NEW d \in Download, TryAgain(d) PROVE Inv'
<1>1. /\ UNCHANGED disk /\ UNCHANGED <<holder, trouble, cancel, runs>>
      /\ task[d].at = "waiting" /\ TypeOK /\ Go(d, "locking")
  BY DEF TryAgain, Quiet, Keep, At, Inv
<1> QED
  BY <1>1, GoKeeps DEF Points, Locked, Linking, Ended, Running, TypeOK

LEMMA RecheckKeeps == ASSUME Inv, NEW d \in Download, Recheck(d) PROVE Inv'
<1>1. /\ UNCHANGED disk /\ UNCHANGED <<trouble, cancel, runs>>
      /\ task[d].at = "locked" /\ TypeOK
  BY DEF Recheck, Keep, At, Inv
<1>2. CASE Complete(Now(d)) /\ NextFile(d) /\ Unlock(Now(d))
  <2>1. PICK g \in File : g = Now(d)
    BY NowIsFile
  <2>2. task[d].at \in Locked
    BY <1>1 DEF Locked
  <2>3. /\ task' \in [Download -> Task]
        /\ \A e \in Download \ {d} : task'[e] = task[e]
        /\ task'[d].at \in {"next", "link"}
        /\ PassedComplete(d)' /\ KnowsPart(d)'
    BY <1>1, <1>2, <2>1, <2>2, SameDisk, NextFileFacts
  <2>4. TypeOK'
    BY <1>1, <1>2, <2>3, SameDisk DEF TypeOK, Unlock
  <2>5. HolderMoves(d)
    BY <1>2, <2>2, <2>3 DEF HolderMoves, Locked, Unlock
  <2> QED
    BY <1>1, <2>3, <2>4, <2>5, DiskKept
<1>3. CASE Go(d, "reuse") /\ UNCHANGED holder
  BY <1>1, <1>3, GoKeeps DEF Points, Locked, Linking, Ended, Running, TypeOK
<1> QED
  BY <1>2, <1>3 DEF Recheck

LEMMA ReuseKeeps == ASSUME Inv, NEW d \in Download, Reuse(d) PROVE Inv'
<1> DEFINE take == old[Now(d)] = "whole" /\ part[Now(d)] = None
           point == IF take THEN "takeOld" ELSE "measure"
<1>1. /\ UNCHANGED <<blob, part, linked, holder, trouble, cancel, runs>>
      /\ task[d].at = "reuse" /\ TypeOK /\ Go(d, point)
      /\ old' = [old EXCEPT ![Now(d)] = IF take THEN "cut" ELSE "absent"]
  BY DEF Reuse, Quiet, Keep, At, Inv
<1>2. PICK g \in File : g = Now(d)
  BY NowIsFile
<1>3. point \in {"takeOld", "measure"} /\ point \in Points
  BY DEF Points, Locked
<1>4. /\ task' \in [Download -> Task]
      /\ \A e \in Download \ {d} : task'[e] = task[e]
      /\ task'[d].at = point /\ task'[d].n = task[d].n
  BY <1>1, <1>3, GoFacts
<1> HIDE DEF point
<1>5. task[d].at \in Locked /\ task'[d].at \in Locked
  BY <1>1, <1>3, <1>4 DEF Locked
<1>6. /\ old' \in [File -> {"absent", "whole", "cut"}] /\ trouble' \in BOOLEAN
      /\ part' \in [File -> Content \union {None}]
  BY <1>1 DEF TypeOK
<1>7. InPlace(PartOf(g)')
  BY <1>1 DEF Inv, DiskRight, PartOf
<1>8. KnowsPart(d)'
  BY <1>3, <1>4 DEF KnowsPart, At
<1> QED
  BY <1>1, <1>2, <1>4, <1>5, <1>6, <1>7, <1>8, PartKeeps

LEMMA TakeOldKeeps == ASSUME Inv, NEW d \in Download, TakeOld(d) PROVE Inv'
<1>1. /\ UNCHANGED <<blob, linked, holder, trouble, cancel, runs>>
      /\ task[d].at = "takeOld" /\ TypeOK /\ Go(d, "measure")
      /\ old' = [old EXCEPT ![Now(d)] = "absent"]
      /\ part' = [part EXCEPT ![Now(d)] = IF Size[Now(d)] = 0 THEN <<>> ELSE <<1>>]
  BY DEF TakeOld, Quiet, Keep, At, Inv
<1>2. PICK g \in File : g = Now(d)
  BY NowIsFile
<1>3. /\ task' \in [Download -> Task]
      /\ \A e \in Download \ {d} : task'[e] = task[e]
      /\ task'[d].at = "measure" /\ task'[d].n = task[d].n
  BY <1>1, GoFacts DEF Points, Locked
<1>4. task[d].at \in Locked /\ task'[d].at \in Locked
  BY <1>1, <1>3 DEF Locked
<1>5. /\ old' \in [File -> {"absent", "whole", "cut"}] /\ trouble' \in BOOLEAN
      /\ part' \in [File -> Content \union {None}]
      /\ \A f \in File \ {g} : part'[f] = part[f]
      /\ part'[g] = <<>> \/ part'[g] = <<1>>
  <2>1. <<>> \in Content /\ <<1>> \in Content
    BY DEF Content
  <2> QED
    BY <2>1, <1>1, <1>2 DEF TypeOK
<1>6. InPlace(PartOf(g)')
  <2>1. PartOf(g)' = <<>> \/ PartOf(g)' = <<1>>
    BY <1>5 DEF PartOf
  <2>2. InPlace(<<>>) /\ InPlace(<<1>>)
    BY DEF InPlace
  <2> QED
    BY <2>1, <2>2
<1>7. KnowsPart(d)'
  BY <1>3 DEF KnowsPart, At
<1> QED
  BY <1>1, <1>2, <1>3, <1>4, <1>5, <1>6, <1>7, PartKeeps

-------------------------------------------------------------------------------
(* The steps of fetch and fetch_once *)

LEMMA MeasureKeeps == ASSUME Inv, NEW d \in Download, Measure(d) PROVE Inv'
<1> DEFINE content == IF part[Now(d)] = None \/ Len(part[Now(d)]) > Size[Now(d)]
                      THEN <<>> ELSE part[Now(d)]
           point == IF Len(content) = Size[Now(d)] THEN "verify" ELSE "request"
<1>1. /\ UNCHANGED <<blob, old, linked, holder, trouble, cancel, runs>>
      /\ task[d].at = "measure" /\ TypeOK
      /\ part' = [part EXCEPT ![Now(d)] = IF Length(@) > Size[Now(d)] THEN None ELSE @]
      /\ task' = [task EXCEPT ![d].at = point, ![d].hash = content,
                              ![d].before = Length(part[Now(d)])]
  BY DEF Measure, Quiet, Keep, At, Inv
<1>2. PICK g \in File : g = Now(d)
  BY NowIsFile
<1>3. /\ part \in [File -> Content \union {None}] /\ Size[g] \in Nat
      /\ task \in [Download -> Task] /\ task[d] \in Task
  BY <1>1 DEF TypeOK
<1>4. /\ part[g] # None => part[g] \in Content /\ Len(part[g]) \in Nat
      /\ <<>> \in Content /\ Len(<<>>) = 0
  BY <1>3 DEF Content
<1>5. /\ part' \in [File -> Content \union {None}]
      /\ \A f \in File \ {g} : part'[f] = part[f]
      /\ content \in Content /\ Len(content) \in Nat
      /\ Length(part[g]) \in Nat
      /\ PartOf(g)' = content
  <2>1. part'[g] = IF Length(part[g]) > Size[g] THEN None ELSE part[g]
    BY <1>1, <1>2, <1>3
  <2> QED
    BY <2>1, <1>1, <1>2, <1>3, <1>4 DEF Length, PartOf
<1>6. point \in {"verify", "request"} /\ (point = "verify" => Len(content) = Size[g])
  BY <1>2
<1>7. InPlace(content)
  <2>1. part[g] # None => InPlace(part[g])
    BY DEF Inv, DiskRight, PartOf
  <2>2. InPlace(<<>>)
    BY DEF InPlace
  <2> QED
    BY <2>1, <2>2, <1>2
<1> HIDE DEF content, point
<1>8. /\ task' \in [Download -> Task] /\ \A e \in Download \ {d} : task'[e] = task[e]
      /\ task'[d].at = point /\ task'[d].hash = content /\ task'[d].n = task[d].n
  <2>1. [task[d] EXCEPT !.at = point, !.hash = content, !.before = Length(part[Now(d)])] \in Task
    BY <1>2, <1>3, <1>5, <1>6 DEF Task, Points, Locked
  <2>2. task' = [task EXCEPT ![d] = [task[d] EXCEPT !.at = point, !.hash = content,
                                       !.before = Length(part[Now(d)])]]
    BY <1>1
  <2>3. task'[d] = [task[d] EXCEPT !.at = point, !.hash = content,
                                   !.before = Length(part[Now(d)])]
    BY <2>2, <1>3
  <2> QED
    BY <2>1, <2>2, <2>3, <1>3 DEF Task
<1>9. task[d].at \in Locked /\ task'[d].at \in Locked
  BY <1>1, <1>6, <1>8 DEF Locked
<1>10. KnowsPart(d)'
  <2>1. Now(d)' = g
    BY <1>2, <1>8 DEF Now
  <2> QED
    BY <2>1, <1>5, <1>6, <1>8 DEF KnowsPart, At
<1>11. old' \in [File -> {"absent", "whole", "cut"}] /\ trouble' \in BOOLEAN
  BY <1>1 DEF TypeOK
<1> QED
  BY <1>1, <1>2, <1>5, <1>7, <1>8, <1>9, <1>10, <1>11, PartKeeps

LEMMA AnsweredKeeps ==
    ASSUME Inv, NEW d \in Download, NEW ranged \in BOOLEAN, Answered(d, ranged)
    PROVE  Inv'
<1> DEFINE hash == IF ranged THEN task[d].hash ELSE <<>>
<1>1. /\ UNCHANGED <<blob, old, linked, holder, trouble, cancel, runs>>
      /\ task[d].at = "request" /\ TypeOK
      /\ part' = [part EXCEPT ![Now(d)] = IF hash = <<>> \/ @ = None THEN <<>> ELSE @]
      /\ task' = [task EXCEPT ![d].at = "stream", ![d].pos = Len(hash), ![d].hash = hash,
                              ![d].kept = Len(hash)]
  BY DEF Answered, Quiet, Keep, At, Inv
<1>2. PICK g \in File : g = Now(d)
  BY NowIsFile
<1>3. /\ part \in [File -> Content \union {None}]
      /\ task \in [Download -> Task] /\ task[d] \in Task /\ task[d].hash \in Content
  BY <1>1 DEF TypeOK, Task
<1>4. task[d].hash = PartOf(g)
  BY <1>1, <1>2 DEF Inv, KnowsPart
<1>5. hash \in Content /\ Len(hash) \in Nat /\ <<>> \in Content /\ None \notin Content
  BY <1>3 DEF Content
<1>6. /\ part' \in [File -> Content \union {None}]
      /\ \A f \in File \ {g} : part'[f] = part[f]
      /\ part'[g] = hash
  <2>1. part'[g] = IF hash = <<>> \/ part[g] = None THEN <<>> ELSE part[g]
    BY <1>1, <1>2, <1>3
  <2>2. part[g] = None => hash = <<>>
    BY <1>4 DEF PartOf
  <2>3. part[g] # None /\ hash # <<>> => hash = part[g]
    BY <1>4 DEF PartOf
  <2> QED
    BY <2>1, <2>2, <2>3, <1>1, <1>2, <1>3, <1>5
<1>7. InPlace(hash)
  <2>1. InPlace(task[d].hash)
    BY <1>4 DEF Inv, DiskRight
  <2>2. InPlace(<<>>)
    BY DEF InPlace
  <2> QED
    BY <2>1, <2>2
<1> HIDE DEF hash
<1>8. /\ task' \in [Download -> Task] /\ \A e \in Download \ {d} : task'[e] = task[e]
      /\ task'[d].at = "stream" /\ task'[d].hash = hash /\ task'[d].n = task[d].n
      /\ task'[d].pos = Len(hash) /\ task'[d].kept = Len(hash)
  <2> DEFINE new == [task[d] EXCEPT !.at = "stream", !.pos = Len(hash), !.hash = hash,
                                    !.kept = Len(hash)]
  <2>1. new \in Task
    BY <1>3, <1>5 DEF Task, Points, Locked
  <2>2. task' = [task EXCEPT ![d] = new]
    BY <1>1
  <2>3. task'[d] = new
    BY <2>2, <1>3
  <2> QED
    BY <2>1, <2>2, <2>3, <1>3 DEF Task
<1>9. task[d].at \in Locked /\ task'[d].at \in Locked
  BY <1>1, <1>8 DEF Locked
<1>10. PartOf(g)' = hash
  BY <1>5, <1>6 DEF PartOf
<1>11. KnowsPart(d)'
  <2>1. Now(d)' = g
    BY <1>2, <1>8 DEF Now
  <2> QED
    BY <2>1, <1>5, <1>6, <1>8, <1>10 DEF KnowsPart, At
<1>12. old' \in [File -> {"absent", "whole", "cut"}] /\ trouble' \in BOOLEAN
  BY <1>1 DEF TypeOK
<1> QED
  BY <1>1, <1>2, <1>6, <1>7, <1>8, <1>9, <1>10, <1>11, <1>12, PartKeeps

LEMMA ChunkKeeps ==
    ASSUME Inv, NEW d \in Download, NEW byte \in Wire(d), Chunk(d, byte)
    PROVE  Inv'
<1>1. /\ UNCHANGED <<blob, old, linked, holder, cancel, runs>> /\ trouble' \in BOOLEAN
      /\ task[d].at = "stream" /\ TypeOK
      /\ part' = [part EXCEPT ![Now(d)] = Append(@, byte)]
      /\ task' = [task EXCEPT ![d].hash = Append(@, byte), ![d].pos = @ + 1]
  BY DEF Chunk, Keep, At, Inv, TypeOK
<1>2. PICK g \in File : g = Now(d)
  BY NowIsFile
<1>3. /\ part \in [File -> Content \union {None}]
      /\ task \in [Download -> Task] /\ task[d] \in Task /\ task[d].hash \in Content
      /\ task[d].pos \in Nat /\ task[d].kept \in Nat
  BY <1>1 DEF TypeOK, Task
<1>4. /\ part[g] = task[d].hash /\ PartOf(g) = task[d].hash
      /\ task[d].pos = Len(task[d].hash) /\ task[d].kept <= Len(task[d].hash)
  BY <1>1, <1>2 DEF Inv, KnowsPart, At, PartOf
<1>5. byte \in Nat /\ byte \in {0, task[d].pos + 1}
  BY <1>3 DEF Wire
<1> DEFINE hash == Append(task[d].hash, byte)
<1>6. /\ hash \in Content /\ Len(hash) = task[d].pos + 1 /\ None \notin Content
      /\ \A k \in 1 .. Len(hash) : hash[k] = IF k = task[d].pos + 1 THEN byte ELSE task[d].hash[k]
  BY <1>3, <1>4, <1>5 DEF Content
<1> HIDE DEF hash
<1>7. InPlace(hash)
  <2>1. \A k \in 1 .. Len(task[d].hash) : task[d].hash[k] \in {0, k}
    BY <1>4 DEF Inv, DiskRight, InPlace
  <2>2. \A k \in 1 .. Len(hash) : k = task[d].pos + 1 \/ k \in 1 .. Len(task[d].hash)
    BY <1>3, <1>4, <1>6
  <2>3. \A k \in 1 .. Len(hash) : hash[k] \in {0, k}
    BY <2>1, <2>2, <1>5, <1>6
  <2> QED
    BY <2>3 DEF InPlace
<1>8. part'[g] = hash /\ \A f \in File \ {g} : part'[f] = part[f]
  BY <1>1, <1>2, <1>3, <1>4 DEF hash
<1>9. part' \in [File -> Content \union {None}]
  BY <1>1, <1>2, <1>3, <1>6, <1>8
<1>10. /\ task' \in [Download -> Task] /\ \A e \in Download \ {d} : task'[e] = task[e]
       /\ task'[d].at = "stream" /\ task'[d].hash = hash /\ task'[d].n = task[d].n
       /\ task'[d].pos = task[d].pos + 1 /\ task'[d].kept = task[d].kept
  <2> DEFINE new == [task[d] EXCEPT !.hash = hash, !.pos = task[d].pos + 1]
  <2>1. new \in Task
    <3>1. task[d].pos + 1 \in Nat /\ hash \in Content
      BY <1>3, <1>6
    <3> QED
      BY <3>1, <1>3 DEF Task
  <2>2. task' = [task EXCEPT ![d] = new]
    BY <1>1 DEF hash
  <2>3. task'[d] = new
    BY <2>2, <1>3
  <2> QED
    BY <2>1, <2>2, <2>3, <1>1, <1>3 DEF Task
<1>11. task[d].at \in Locked /\ task'[d].at \in Locked
  BY <1>1, <1>10 DEF Locked
<1>12. PartOf(g)' = hash
  BY <1>6, <1>8 DEF PartOf
<1>13. KnowsPart(d)'
  <2>1. Now(d)' = g
    BY <1>2, <1>10 DEF Now
  <2>2. part'[g] # None
    BY <1>6, <1>8
  <2>3. task'[d].kept <= Len(hash)
    BY <1>3, <1>4, <1>6, <1>10
  <2> QED
    BY <2>1, <2>2, <2>3, <1>6, <1>10, <1>12 DEF KnowsPart, At
<1>14. old' \in [File -> {"absent", "whole", "cut"}] /\ InPlace(PartOf(g)')
  BY <1>1, <1>7, <1>12 DEF TypeOK
<1> QED
  BY <1>1, <1>2, <1>8, <1>9, <1>10, <1>11, <1>13, <1>14, PartKeeps

LEMMA StreamEndsKeeps == ASSUME Inv, NEW d \in Download, StreamEnds(d) PROVE Inv'
<1>1. /\ UNCHANGED disk /\ UNCHANGED <<holder, cancel, runs>> /\ trouble' \in BOOLEAN
      /\ task[d].at = "stream" /\ TypeOK
  BY DEF StreamEnds, Keep, At, Inv, TypeOK
<1>2. task[d].hash = PartOf(Now(d))
  BY <1>1 DEF Inv, KnowsPart
<1>3. CASE Len(task[d].hash) = Size[Now(d)] /\ Go(d, "verify")
  BY <1>1, <1>2, <1>3, GoKeeps DEF Points, Locked, Linking, Ended, Running
<1>4. CASE Go(d, "retry")
  BY <1>1, <1>4, GoKeeps DEF Points, Locked, Linking, Ended, Running
<1> QED
  BY <1>3, <1>4 DEF StreamEnds

LEMMA BreaksKeeps == ASSUME Inv, NEW d \in Download, Breaks(d) PROVE Inv'
<1>1. /\ UNCHANGED disk /\ UNCHANGED <<holder, cancel, runs>> /\ trouble' \in BOOLEAN
      /\ task[d].at \in {"request", "stream"} /\ Go(d, "retry")
  BY DEF Breaks, Keep
<1> QED
  BY <1>1, GoKeeps DEF Points, Locked, Linking, Ended, Running

LEMMA WakeKeeps == ASSUME Inv, NEW d \in Download, Wake(d) PROVE Inv'
<1>1. /\ UNCHANGED disk /\ UNCHANGED <<holder, trouble, cancel, runs>> /\ TypeOK
      /\ task[d].at = "sleep" /\ Go(d, "measure")
  BY DEF Wake, Quiet, Keep, At, Inv
<1> QED
  BY <1>1, GoKeeps DEF Points, Locked, Linking, Ended, Running, TypeOK

\* What is left of a part that was not flushed is the beginning of the part.
LEMMA CutFacts ==
    ASSUME Inv, NEW f \in File, NEW n \in Nat
    PROVE  /\ Cut(f, n) \in Content \union {None}
           /\ InPlace(IF Cut(f, n) = None THEN <<>> ELSE Cut(f, n))
<1>1. part[f] \in Content \union {None} /\ None \notin Content
  BY DEF Inv, TypeOK, Content
<1>2. CASE part[f] = None
  BY <1>2 DEF Cut, InPlace
<1>3. CASE part[f] \in Content
  <2> DEFINE m == IF Len(part[f]) - n < Flushed(f) THEN Flushed(f) ELSE Len(part[f]) - n
  <2>1. Len(part[f]) \in Nat
    BY <1>3 DEF Content
  <2>2. Flushed(f) \in 0 .. Len(part[f])
    <3>1. CASE holder[f] # None /\ At(holder[f], "stream")
      <4>1. holder[f] \in Download /\ Now(holder[f]) = f
        BY <3>1 DEF Inv, TypeOK, LockHeld
      <4>2. KnowsPart(holder[f]) /\ task[holder[f]] \in Task
        BY <4>1 DEF Inv, TypeOK
      <4>3. task[holder[f]].hash = PartOf(f) /\ task[holder[f]].kept <= Len(task[holder[f]].hash)
        BY <3>1, <4>1, <4>2 DEF KnowsPart, At
      <4>4. task[holder[f]].kept \in Nat
        BY <4>2 DEF Task
      <4>5. Flushed(f) = task[holder[f]].kept /\ PartOf(f) = part[f]
        BY <3>1, <1>1, <1>3 DEF Flushed, PartOf
      <4> QED
        BY <4>3, <4>4, <4>5, <2>1
    <3>2. CASE ~(holder[f] # None /\ At(holder[f], "stream"))
      <4>1. Flushed(f) = Len(part[f])
        BY <3>2, <1>1, <1>3 DEF Flushed, Length
      <4> QED
        BY <4>1, <2>1
    <3> QED
      BY <3>1, <3>2
  <2>3. m \in 0 .. Len(part[f])
    BY <2>1, <2>2
  <2> HIDE DEF m
  <2>4. /\ SubSeq(part[f], 1, m) \in Content
        /\ Len(SubSeq(part[f], 1, m)) = m
        /\ \A k \in 1 .. m : SubSeq(part[f], 1, m)[k] = part[f][k]
    BY <2>1, <2>3, <1>3 DEF Content
  <2>5. Cut(f, n) = SubSeq(part[f], 1, m)
    BY <1>1, <1>3 DEF Cut, m
  <2>6. \A k \in 1 .. Len(part[f]) : part[f][k] \in {0, k}
    BY <1>1, <1>3 DEF Inv, DiskRight, InPlace, PartOf
  <2>7. InPlace(SubSeq(part[f], 1, m))
    BY <2>1, <2>3, <2>4, <2>6 DEF InPlace
  <2> QED
    BY <2>4, <2>5, <2>7, <1>1
<1> QED
  BY <1>1, <1>2, <1>3

LEMMA RefusedKeeps == ASSUME Inv, NEW d \in Download, Refused(d) PROVE Inv'
<1>1. /\ task[d].at \in Locked /\ Leave(d, "failed") /\ trouble' = TRUE
      /\ UNCHANGED <<blob, old, linked>> /\ TypeOK
  BY DEF Refused, Fails, Inv
<1>2. PICK n \in 0 .. Buffer : part' = [part EXCEPT ![Now(d)] = Cut(Now(d), n)]
  BY DEF Refused
<1>3. PICK g \in File : g = Now(d)
  BY NowIsFile
<1>4. n \in Nat
  BY <1>2
<1>5. Cut(g, n) \in Content \union {None} /\ InPlace(IF Cut(g, n) = None THEN <<>> ELSE Cut(g, n))
  BY <1>4, CutFacts
<1>6. /\ part' \in [File -> Content \union {None}]
      /\ \A f \in File \ {g} : part'[f] = part[f]
      /\ part'[g] = Cut(g, n)
  BY <1>1, <1>2, <1>3, <1>5 DEF TypeOK
<1>7. InPlace(PartOf(g)')
  BY <1>5, <1>6 DEF PartOf
<1>8. old' \in [File -> {"absent", "whole", "cut"}] /\ "failed" \in Ended \ {"done"}
  BY <1>1 DEF TypeOK, Ended
<1> QED
  BY <1>1, <1>3, <1>6, <1>7, <1>8, LeaveKeeps

\* The same for a download that leaves the disk alone when it leaves.
LEMMA LeaveQuietly ==
    ASSUME Inv, NEW d \in Download, NEW point \in Ended \ {"done"}, Leave(d, point),
           task[d].at \in Locked, UNCHANGED disk, trouble' \in BOOLEAN
    PROVE  Inv'
<1>1. PICK g \in File : g = Now(d)
  BY NowIsFile
<1>2. InPlace(PartOf(g)')
  BY SameDisk DEF Inv, DiskRight
<1>3. part' \in [File -> Content \union {None}] /\ old' \in [File -> {"absent", "whole", "cut"}]
  BY SameDisk DEF Inv, TypeOK
<1> QED
  BY <1>1, <1>2, <1>3, SameDisk, LeaveKeeps

LEMMA RetryKeeps == ASSUME Inv, NEW d \in Download, Retry(d) PROVE Inv'
<1> DEFINE count == IF Length(part[Now(d)]) > task[d].before THEN 0 ELSE task[d].retries
<1>1. /\ UNCHANGED disk /\ UNCHANGED trouble /\ task[d].at = "retry" /\ TypeOK
      /\ task[d].at \in Locked
  BY DEF Retry, At, Inv, Locked
<1>2. trouble' \in BOOLEAN
  BY <1>1 DEF TypeOK
<1>3. CASE Fails(d)
  BY <1>1, <1>2, <1>3, LeaveQuietly DEF Fails, Ended
<1>4. CASE /\ task' = [task EXCEPT ![d].at = "sleep", ![d].retries = count + 1]
           /\ UNCHANGED holder /\ Keep
  <2>1. task \in [Download -> Task] /\ task[d] \in Task /\ count \in Nat
    BY <1>1 DEF TypeOK, Task
  <2> HIDE DEF count
  <2>2. /\ task' \in [Download -> Task] /\ \A e \in Download \ {d} : task'[e] = task[e]
        /\ task'[d].at = "sleep" /\ task'[d].n = task[d].n
    <3> DEFINE new == [task[d] EXCEPT !.at = "sleep", !.retries = count + 1]
    <3>1. count + 1 \in Nat /\ "sleep" \in Points
      BY <2>1 DEF Points, Locked
    <3>2. new \in Task
      BY <2>1, <3>1 DEF Task
    <3>3. task' = [task EXCEPT ![d] = new]
      BY <1>4
    <3>4. task'[d] = new
      BY <3>3, <2>1
    <3> QED
      BY <3>2, <3>3, <3>4, <2>1 DEF Task
  <2>3. TypeOK'
    BY <1>1, <1>4, <2>2, SameDisk DEF TypeOK, Keep
  <2>4. HolderMoves(d)
    BY <1>1, <1>4, <2>2 DEF HolderMoves, Locked
  <2>5. PassedComplete(d)'
    BY <1>1, <2>2, SameDisk, SameFile DEF Linking, Running, Ended
  <2>6. KnowsPart(d)'
    BY <2>2 DEF KnowsPart, At
  <2> QED
    BY <1>1, <2>2, <2>3, <2>4, <2>5, <2>6, DiskKept
<1> QED
  BY <1>3, <1>4 DEF Retry

LEMMA VerifyKeeps == ASSUME Inv, NEW d \in Download, Verify(d) PROVE Inv'
<1>1. /\ UNCHANGED <<blob, old, linked, trouble>> /\ task[d].at = "verify" /\ TypeOK
      /\ task[d].at \in Locked
  BY DEF Verify, At, Inv, Locked
<1>2. PICK g \in File : g = Now(d)
  BY NowIsFile
<1>3. task[d].hash = PartOf(g) /\ Len(task[d].hash) = Size[g]
  BY <1>1, <1>2 DEF Inv, KnowsPart
<1>4. CASE part' = [part EXCEPT ![Now(d)] = None] /\ Fails(d)
  <2>1. /\ part' \in [File -> Content \union {None}]
        /\ \A f \in File \ {g} : part'[f] = part[f]
        /\ part'[g] = None
    BY <1>1, <1>2, <1>4 DEF TypeOK
  <2>2. InPlace(PartOf(g)')
    BY <2>1 DEF PartOf, InPlace
  <2>3. old' \in [File -> {"absent", "whole", "cut"}] /\ trouble' \in BOOLEAN
    BY <1>1 DEF TypeOK
  <2> QED
    BY <1>1, <1>2, <1>4, <2>1, <2>2, <2>3, LeaveKeeps DEF Fails, Ended
<1>5. CASE /\ ~(Now(d) \in Hashed /\ task[d].hash # Right(Now(d)))
           /\ Go(d, "rename") /\ UNCHANGED <<part, holder>> /\ Keep
  <2>1. UNCHANGED disk /\ UNCHANGED <<holder, cancel, runs>> /\ trouble' \in BOOLEAN
    BY <1>1, <1>5 DEF disk, Keep, TypeOK
  <2> QED
    BY <1>1, <1>2, <1>3, <1>5, <2>1, GoKeeps DEF Points, Locked, Linking, Ended, Running
<1> QED
  BY <1>4, <1>5 DEF Verify

LEMMA RenameKeeps == ASSUME Inv, NEW d \in Download, Rename(d) PROVE Inv'
<1>1. /\ UNCHANGED <<old, linked, trouble>> /\ task[d].at = "rename" /\ TypeOK
      /\ task[d].at \in Locked
  BY DEF Rename, At, Inv, Locked
<1>2. CASE part[Now(d)] = None
  <2>1. UNCHANGED disk /\ Leave(d, "failed") /\ trouble' \in BOOLEAN
    BY <1>1, <1>2 DEF Rename, Fails, disk, TypeOK
  <2> QED
    BY <1>1, <2>1, LeaveQuietly DEF Ended
<1>3. CASE part[Now(d)] # None
  <2>1. PICK g \in File : g = Now(d)
    BY NowIsFile
  <2>2. /\ blob' = [blob EXCEPT ![g] = part[g]]
        /\ part' = [part EXCEPT ![g] = None]
        /\ NextFile(d) /\ holder' = [holder EXCEPT ![Now(d)] = None]
        /\ UNCHANGED <<cancel, runs>>
    BY <1>3, <2>1 DEF Rename, Unlock, Keep
  <2>3. /\ part[g] \in Content /\ InPlace(part[g]) /\ Len(part[g]) = Size[g]
        /\ g \in Hashed => part[g] = Right(g)
    <3>1. /\ task[d].hash = PartOf(g) /\ Len(task[d].hash) = Size[g]
          /\ g \in Hashed => task[d].hash = Right(g)
      BY <1>1, <2>1 DEF Inv, KnowsPart, At
    <3>2. PartOf(g) = part[g]
      BY <1>3, <2>1 DEF PartOf
    <3>3. InPlace(PartOf(g))
      BY DEF Inv, DiskRight
    <3>4. part[g] \in Content
      BY <1>1, <1>3, <2>1 DEF TypeOK
    <3> QED
      BY <3>1, <3>2, <3>3, <3>4
  <2>4. /\ blob' \in [File -> Content \union {None}] /\ part' \in [File -> Content \union {None}]
        /\ \A f \in File \ {g} : blob'[f] = blob[f] /\ part'[f] = part[f]
        /\ blob'[g] = part[g] /\ part'[g] = None
    BY <1>1, <2>2, <2>3 DEF TypeOK
  <2>5. None \notin Content
    BY DEF Content
  <2>6. Complete(g)' /\ \A f \in File : Complete(f) => Complete(f)'
    BY <2>3, <2>4, <2>5 DEF Complete
  <2>7. /\ task' \in [Download -> Task]
        /\ \A e \in Download \ {d} : task'[e] = task[e]
        /\ task'[d].at \in {"next", "link"}
        /\ PassedComplete(d)' /\ KnowsPart(d)'
    BY <1>1, <2>1, <2>2, <2>6, NextFileFacts
  <2>8. TypeOK'
    BY <1>1, <2>2, <2>4, <2>7 DEF TypeOK
  <2>9. HolderMoves(d)
    BY <1>1, <2>2, <2>7 DEF HolderMoves, Locked
  <2>10. InPlace(PartOf(g)')
    BY <2>4 DEF PartOf, InPlace
  <2>11. \A f \in linked' : Complete(f)'
    BY <1>1, <2>6 DEF Inv, TypeOK
  <2> QED
    BY <1>1, <2>1, <2>3, <2>4, <2>6, <2>7, <2>8, <2>9, <2>10, <2>11, StepKeeps
<1> QED
  BY <1>2, <1>3

-------------------------------------------------------------------------------
(* The steps of linking, and of the daemon *)

\* A step of linking keeps the invariant, if it links the file at hand at most.
LEMMA LinkKeeps ==
    ASSUME Inv, NEW d \in Download, task[d].at \in Linking,
           task' \in [Download -> Task],
           \A e \in Download \ {d} : task'[e] = task[e],
           task'[d].at \in Linking \union {"failed", "done"},
           task'[d].n \in DOMAIN Plan[d],
           UNCHANGED <<blob, part, old, holder, cancel, runs>>, trouble' \in BOOLEAN,
           linked' \subseteq linked \union {Now(d)}
    PROVE  Inv'
<1>1. PICK g \in File : g = Now(d)
  BY NowIsFile
<1>2. /\ TypeOK /\ \A n \in DOMAIN Plan[d] : Complete(Plan[d][n])
      /\ DOMAIN Plan[d] = 1 .. Len(Plan[d]) /\ Len(Plan[d]) \in Nat
      /\ \A n \in DOMAIN Plan[d] : Plan[d][n] \in File
      /\ task[d].n \in DOMAIN Plan[d]
  BY NowIsFile DEF Inv, PassedComplete
<1>3. TypeOK'
  BY <1>1, <1>2 DEF TypeOK
<1>4. \A f \in File : Complete(f) => Complete(f)'
  BY DEF Complete
<1>5. \A f \in linked' : Complete(f)'
  <2>1. Complete(g)
    BY <1>1, <1>2 DEF Now
  <2> QED
    BY <1>1, <1>2, <1>4, <2>1 DEF Inv, TypeOK
<1>6. HolderMoves(d)
  BY DEF HolderMoves, Locked, Linking
<1>7. KnowsPart(d)'
  BY DEF KnowsPart, At, Linking
<1>8. PassedComplete(d)'
  <2>1. \A n \in DOMAIN Plan[d] : Complete(Plan[d][n])'
    BY <1>2, <1>4
  <2>2. task'[d].n \in Nat /\ 1 .. task'[d].n - 1 \subseteq DOMAIN Plan[d]
    BY <1>2
  <2> QED
    BY <2>1, <2>2 DEF PassedComplete
<1>9. InPlace(PartOf(g)')
  BY DEF Inv, DiskRight, PartOf
<1> QED
  BY <1>1, <1>3, <1>4, <1>5, <1>6, <1>7, <1>8, <1>9, StepKeeps

LEMMA LinkLookKeeps == ASSUME Inv, NEW d \in Download, LinkLook(d) PROVE Inv'
<1> DEFINE point == IF Now(d) \in linked THEN "unlink" ELSE "symlink"
<1>1. /\ UNCHANGED disk /\ UNCHANGED <<holder, trouble, cancel, runs>> /\ TypeOK
      /\ task[d].at = "link" /\ Go(d, point) /\ point \in {"unlink", "symlink"}
  BY DEF LinkLook, Quiet, Keep, At, Inv
<1> HIDE DEF point
<1> QED
  BY <1>1, GoKeeps DEF Points, Locked, Linking, Ended, Running, TypeOK

LEMMA UnlinkKeeps == ASSUME Inv, NEW d \in Download, Unlink(d) PROVE Inv'
<1> DEFINE point == IF Now(d) \in linked THEN "symlink" ELSE "failed"
<1>1. /\ UNCHANGED <<blob, part, old, holder, trouble, cancel, runs>> /\ TypeOK
      /\ task[d].at = "unlink" /\ Go(d, point) /\ point \in {"symlink", "failed"}
      /\ linked' = linked \ {Now(d)}
  BY DEF Unlink, Quiet, Keep, At, Inv
<1> HIDE DEF point
<1>2. point \in Points
  BY <1>1 DEF Points, Linking, Ended
<1>3. /\ task' \in [Download -> Task] /\ \A e \in Download \ {d} : task'[e] = task[e]
      /\ task'[d].at = point /\ task'[d].n = task[d].n
  BY <1>1, <1>2, GoFacts
<1>4. task[d].n \in DOMAIN Plan[d] /\ trouble' \in BOOLEAN
  BY <1>1 DEF Inv, PassedComplete, TypeOK
<1>5. task[d].at \in Linking /\ task'[d].at \in Linking \union {"failed", "done"}
  BY <1>1, <1>3 DEF Linking
<1> QED
  BY <1>1, <1>3, <1>4, <1>5, LinkKeeps

LEMMA SymlinkKeeps == ASSUME Inv, NEW d \in Download, Symlink(d) PROVE Inv'
<1>1. /\ UNCHANGED <<blob, part, old, holder, trouble, cancel, runs>> /\ TypeOK
      /\ task[d].at = "symlink" /\ linked' = linked \union {Now(d)}
  BY DEF Symlink, Quiet, Keep, At, Inv
<1>2. /\ task[d].n \in 1 .. Len(Plan[d]) /\ Len(Plan[d]) \in Nat
      /\ DOMAIN Plan[d] = 1 .. Len(Plan[d]) /\ task \in [Download -> Task] /\ task[d] \in Task
  BY <1>1, NowIsFile DEF TypeOK
<1>3. /\ task' \in [Download -> Task] /\ \A e \in Download \ {d} : task'[e] = task[e]
      /\ task'[d].at \in {"link", "failed", "done"} /\ task'[d].n \in DOMAIN Plan[d]
  <2>1. ASSUME NEW point \in {"failed", "done"}, Go(d, point)
        PROVE  /\ task' \in [Download -> Task]
               /\ \A e \in Download \ {d} : task'[e] = task[e]
               /\ task'[d].at \in {"failed", "done"} /\ task'[d].n = task[d].n
    BY <2>1, <1>1, <1>2, GoFacts DEF Points, Ended
  <2>2. CASE /\ task[d].n < Len(Plan[d])
             /\ task' = [task EXCEPT ![d].at = "link", ![d].n = @ + 1]
    <3> DEFINE new == [task[d] EXCEPT !.at = "link", !.n = task[d].n + 1]
    <3>1. task[d].n + 1 \in Nat \ {0} /\ "link" \in Points
      BY <1>2 DEF Points, Linking
    <3>2. new \in Task
      BY <1>2, <3>1 DEF Task
    <3>3. task' = [task EXCEPT ![d] = new]
      BY <2>2
    <3>4. task'[d] = new
      BY <3>3, <1>2
    <3>5. task'[d].n = task[d].n + 1 /\ task'[d].at = "link"
      BY <3>4, <1>2 DEF Task
    <3> QED
      BY <3>2, <3>3, <3>5, <2>2, <1>2
  <2> QED
    BY <1>2, <2>1, <2>2 DEF Symlink, Linked
<1>4. task[d].at \in Linking /\ task'[d].at \in Linking \union {"failed", "done"}
  BY <1>1, <1>3 DEF Linking
<1>5. trouble' \in BOOLEAN
  BY <1>1 DEF TypeOK
<1> QED
  BY <1>1, <1>3, <1>4, <1>5, LinkKeeps

LEMMA DiskFailsKeeps == ASSUME Inv, NEW d \in Download, DiskFails(d) PROVE Inv'
<1>1. /\ UNCHANGED disk /\ UNCHANGED <<holder, cancel, runs>> /\ trouble' \in BOOLEAN
      /\ task[d].at \in Linking \union {"locking"} /\ Go(d, "failed")
  BY DEF DiskFails, Keep
<1> QED
  BY <1>1, GoKeeps DEF Points, Locked, Linking, Ended, Running

LEMMA PauseKeeps == ASSUME Inv, NEW d \in Download, Pause(d) PROVE Inv'
<1>1. UNCHANGED trouble /\ UNCHANGED disk /\ TypeOK
  BY DEF Pause, Inv
<1>2. CASE At(d, "waiting") /\ Go(d, "paused") /\ UNCHANGED holder /\ Keep
  BY <1>1, <1>2, GoKeeps DEF Points, Locked, Linking, Ended, Running, TypeOK, Keep, At
<1>3. CASE task[d].at \in {"request", "stream", "sleep"} /\ Leave(d, "paused")
  BY <1>1, <1>3, LeaveQuietly DEF Locked, Ended, TypeOK
<1> QED
  BY <1>2, <1>3 DEF Pause

LEMMA BeginKeeps == ASSUME Inv, NEW d \in Download, Begin(d) PROVE Inv'
<1>1. /\ UNCHANGED disk /\ UNCHANGED <<holder, trouble>> /\ TypeOK /\ task[d].at \in Ended
      /\ task' = [task EXCEPT ![d] = Fresh("next", 1)]
      /\ cancel' = [cancel EXCEPT ![d] = FALSE] /\ runs' = [runs EXCEPT ![d] = @ + 1]
  BY DEF Begin, Running, Inv
<1>2. /\ task' \in [Download -> Task] /\ \A e \in Download \ {d} : task'[e] = task[e]
      /\ task'[d].at = "next" /\ task'[d].n = 1
  <2>1. "next" \in Points /\ 1 \in Nat \ {0}
    BY DEF Points
  <2> QED
    BY <1>1, <2>1, FreshFacts
<1>3. TypeOK'
  BY <1>1, <1>2, SameDisk DEF TypeOK
<1>4. HolderMoves(d)
  BY <1>1, <1>2 DEF HolderMoves, Ended, Locked
<1>5. PassedComplete(d)'
  <2>1. 1 \in DOMAIN Plan[d]
    BY NowIsFile
  <2> QED
    BY <1>2, <2>1 DEF PassedComplete, Linking
<1>6. KnowsPart(d)'
  BY <1>2 DEF KnowsPart, At
<1> QED
  BY <1>1, <1>2, <1>3, <1>4, <1>5, <1>6, DiskKept

LEMMA CancelKeeps == ASSUME Inv, NEW d \in Download, Cancel(d) PROVE Inv'
<1>1. /\ UNCHANGED disk /\ UNCHANGED <<task, holder, runs, trouble>> /\ TypeOK
      /\ cancel' = [cancel EXCEPT ![d] = TRUE]
  BY DEF Cancel, Inv
<1>2. TypeOK'
  BY <1>1, SameDisk DEF TypeOK
<1>3. HolderMoves(d)
  BY <1>1 DEF HolderMoves
<1>4. KnowsPart(d) /\ PassedComplete(d)
  BY DEF Inv
<1>5. KnowsPart(d)'
  BY <1>1, <1>4, SameDisk DEF KnowsPart, At, PartOf, Now, Right
<1>6. PassedComplete(d)'
  BY <1>1, <1>4, SameDisk DEF PassedComplete, Running, Complete
<1> QED
  BY <1>1, <1>2, <1>3, <1>5, <1>6, DiskKept

\* With no download running nothing is known of the files, and nothing is asked
\* of what is not there.
LEMMA IdleRight ==
    ASSUME Inv, TypeOK',
           task' = [d \in Download |-> Fresh("off", 1)],
           \A f \in File : holder'[f] = None,
           \A f \in File : InPlace(PartOf(f)'),
           \A f \in File : blob'[f] = blob[f] \/ (blob'[f] = None /\ linked' = {}),
           linked' \subseteq linked
    PROVE  Inv'
<1>1. \A d \in Download : task'[d].at = "off" /\ task'[d].n = 1
  BY DEF Fresh
<1>2. LockHeld'
  BY <1>1 DEF LockHeld, Locked
<1>3. DiskRight'
  <2>1. DiskRight
    BY DEF Inv
  <2>2. \A f \in File : blob'[f] # None =>
          Len(blob'[f]) = Size[f] /\ InPlace(blob'[f]) /\ (f \in Hashed => blob'[f] = Right(f))
    BY <2>1 DEF DiskRight
  <2> QED
    BY <2>2 DEF DiskRight, InPlace, Right
<1>4. \A d \in Download : KnowsPart(d)'
  BY <1>1 DEF KnowsPart, At
<1>5. \A d \in Download : PassedComplete(d)'
  <2>1. \A d \in Download : 1 \in DOMAIN Plan[d]
    BY NowIsFile
  <2> QED
    BY <1>1, <2>1 DEF PassedComplete, Running, Linking, Ended
<1>6. \A f \in linked' : Complete(f)'
  BY DEF Inv, TypeOK, Complete
<1> QED
  BY <1>2, <1>3, <1>4, <1>5, <1>6 DEF Inv

\* A download that has not been begun.
LEMMA OffIsTask == [d \in Download |-> Fresh("off", 1)] \in [Download -> Task]
BY DEF Fresh, Task, Points, Ended, Content

LEMMA RemoveKeeps == ASSUME Inv, Remove PROVE Inv'
<1>1. /\ \A d \in Download : task[d].at \in Ended
      /\ blob' = [f \in File |-> None] /\ part' = [f \in File |-> None]
      /\ old' = [f \in File |-> "absent"] /\ linked' = {}
      /\ task' = [d \in Download |-> Fresh("off", 1)]
      /\ UNCHANGED <<holder, trouble, cancel, runs>> /\ TypeOK
  BY DEF Remove, Running, Keep, Inv
<1>2. TypeOK'
  BY <1>1, OffIsTask DEF TypeOK
<1>3. \A f \in File : holder'[f] = None
  BY <1>1 DEF Inv, LockHeld, TypeOK, Locked, Ended
<1>4. \A f \in File : InPlace(PartOf(f)')
  BY <1>1 DEF PartOf, InPlace
<1> QED
  BY <1>1, <1>2, <1>3, <1>4, IdleRight

LEMMA CrashKeeps == ASSUME Inv, Crash PROVE Inv'
<1>1. /\ task' = [d \in Download |-> Fresh("off", 1)]
      /\ holder' = [f \in File |-> None] /\ cancel' = [d \in Download |-> FALSE]
      /\ trouble' = TRUE
      /\ UNCHANGED <<blob, old, linked, runs>> /\ TypeOK
  BY DEF Crash, Inv
<1>2. PICK n \in 0 .. Buffer : part' = [f \in File |-> Cut(f, n)]
  BY DEF Crash
<1>3. \A f \in File : /\ Cut(f, n) \in Content \union {None}
                      /\ InPlace(IF Cut(f, n) = None THEN <<>> ELSE Cut(f, n))
  BY <1>2, CutFacts
<1>4. part' \in [File -> Content \union {None}] /\ \A f \in File : part'[f] = Cut(f, n)
  BY <1>2, <1>3
<1>5. TypeOK'
  BY <1>1, <1>4, OffIsTask DEF TypeOK
<1>6. \A f \in File : InPlace(PartOf(f)')
  BY <1>3, <1>4 DEF PartOf
<1> QED
  BY <1>1, <1>5, <1>6, IdleRight

-------------------------------------------------------------------------------
(* The theorems *)

\* The cache of an empty folder, or of one that hf-hub left, is right.
LEMMA InitInv == ASSUME Init PROVE Inv
<1>1. TypeOK
  BY OffIsTask DEF Init, TypeOK
<1>2. \A d \in Download : task[d].at = "off" /\ task[d].n = 1
  BY DEF Init, Fresh
<1>3. LockHeld
  BY <1>2 DEF Init, LockHeld, Locked
<1>4. DiskRight
  BY DEF Init, DiskRight, PartOf, InPlace
<1>5. \A d \in Download : KnowsPart(d)
  BY <1>2 DEF KnowsPart, At
<1>6. \A d \in Download : PassedComplete(d)
  <2>1. \A d \in Download : 1 \in DOMAIN Plan[d]
    OBVIOUS
  <2> QED
    BY <1>2, <2>1 DEF PassedComplete, Running, Linking, Ended
<1> QED
  BY <1>1, <1>3, <1>4, <1>5, <1>6 DEF Inv, Init

\* Every step of a download, of the daemon and of a crash keeps the invariant.
LEMMA NextInv == ASSUME Inv, [Next]_vars PROVE Inv'
<1>1. ASSUME NEW d \in Download, Work(d)
      PROVE  Inv'
  BY <1>1, LookKeeps, TryLockKeeps, TryAgainKeeps, RecheckKeeps, ReuseKeeps, TakeOldKeeps,
     MeasureKeeps, StreamEndsKeeps, BreaksKeeps, RefusedKeeps, RetryKeeps, WakeKeeps,
     VerifyKeeps, RenameKeeps, LinkLookKeeps, UnlinkKeeps, SymlinkKeeps, DiskFailsKeeps,
     AnsweredKeeps, ChunkKeeps
     DEF Work, Answers
<1>2. ASSUME NEW d \in Download, Pause(d) \/ Begin(d) \/ Cancel(d)
      PROVE  Inv'
  BY <1>2, PauseKeeps, BeginKeeps, CancelKeeps
<1>3. CASE Remove
  BY <1>3, RemoveKeeps
<1>4. CASE Crash
  BY <1>4, CrashKeeps
<1>5. CASE UNCHANGED vars
  <2>1. UNCHANGED <<blob, part, old, linked, holder, task, cancel, runs, trouble>>
    BY <1>5 DEF vars
  <2> QED
    BY <2>1 DEF Inv, TypeOK, LockHeld, DiskRight, KnowsPart, PassedComplete, Complete, PartOf,
                At, Running, Now
<1> QED
  BY <1>1, <1>2, <1>3, <1>4, <1>5 DEF Next

\* The locks, the parts, the hashes and the blobs agree in every state that
\* downloads, pauses, deletions and crashes reach (the whole of the module).
THEOREM InvHolds == Spec => []Inv
<1>1. Init => Inv
  BY InitInv
<1>2. Inv /\ [Next]_vars => Inv'
  BY NextInv
<1> QED
  BY <1>1, <1>2, PTL DEF Spec

\* The types of the state (all of the module).
THEOREM TypeCorrect == Spec => []TypeOK
<1>1. Inv => TypeOK
  BY DEF Inv
<1> QED
  BY <1>1, InvHolds, PTL

\* A blob that counts as complete holds the bytes of its file (fetch_blob).
THEOREM CompleteBlobsAreRight == Spec => []CompleteIsRight
<1>1. Inv => CompleteIsRight
  BY DEF Inv, DiskRight, InPlace, Complete, CompleteIsRight
<1> QED
  BY <1>1, InvHolds, PTL

\* The snapshot links to complete blobs only (download, link).
THEOREM LinkedBlobsAreComplete == Spec => []LinkedIsComplete
<1>1. Inv => LinkedIsComplete
  BY DEF Inv, PassedComplete, LinkedIsComplete
<1> QED
  BY <1>1, InvHolds, PTL

\* What was hashed on the way is what the part holds (fetch_once).
THEOREM HashesAreOfParts == Spec => []HashIsOfPart
<1>1. Inv => HashIsOfPart
  BY DEF Inv, KnowsPart, PartOf, HashIsOfPart
<1> QED
  BY <1>1, InvHolds, PTL

-------------------------------------------------------------------------------
(* A download fails for a reason *)

\* rename finds no part for an empty file, and the download fails: what follows is
\* about repositories without one.
NoEmptyFile == \A f \in File : Size[f] > 0

\* A step of d keeps what is known of failures, if it leaves the other tasks, parts
\* and links alone and, while nothing went wrong, the part at hand clean.
LEMMA ReasonsKeep ==
    ASSUME Inv, Reasons, NEW d \in Download, NEW g \in File, g = Now(d),
           ~At(d, "off"), runs' = runs, trouble => trouble',
           \A e \in Download \ {d} : task'[e] = task[e],
           \A f \in File \ {g} : part'[f] = part[f] /\ (f \in linked' <=> f \in linked),
           ~trouble' => Begins(PartOf(g)', g) /\ task'[d].at \notin {"retry", "sleep"},
           Alone(d) => LinkSeen(d)' /\ (task'[d].at = "failed" => trouble')
    PROVE  Reasons'
<1>1. runs[d] # 0
  BY DEF Reasons
<1>2. ASSUME NEW e \in Download, Alone(e), e # d
      PROVE  LinkSeen(e)' /\ (task'[e].at = "failed" => trouble')
  <2>1. LinkSeen(e) /\ (At(e, "failed") => trouble)
    BY <1>2 DEF Reasons
  <2>2. task'[e] = task[e]
    BY <1>2
  <2>3. Now(e) \in File /\ task[e].n \in DOMAIN Plan[e] /\ task[d].n \in DOMAIN Plan[d]
    BY NowIsFile
  <2>4. Now(e) # g
    BY <1>1, <1>2, <2>3 DEF Alone, Now
  <2>5. Now(e) \in linked' <=> Now(e) \in linked
    BY <2>3, <2>4
  <2> QED
    BY <2>1, <2>2, <2>5 DEF LinkSeen, At, Now
<1>3. ASSUME ~trouble', NEW f \in File
      PROVE  Begins(PartOf(f)', f)
  <2>1. CASE f = g
    BY <1>3, <2>1
  <2>2. CASE f # g
    <3>1. Begins(PartOf(f), f)
      BY <1>3 DEF Reasons
    <3>2. PartOf(f)' = PartOf(f)
      BY <2>2 DEF PartOf
    <3> QED
      BY <3>1, <3>2
  <2> QED
    BY <2>1, <2>2
<1>4. ASSUME ~trouble', NEW e \in Download
      PROVE  task'[e].at \notin {"retry", "sleep"}
  BY <1>4 DEF Reasons
<1>5. ASSUME NEW e \in Download, runs[e] = 0
      PROVE  task'[e].at = "off"
  BY <1>1, <1>5 DEF Reasons, At
<1>6. ASSUME NEW e \in Download, Alone(e)
      PROVE  LinkSeen(e)' /\ (task'[e].at = "failed" => trouble')
  BY <1>2, <1>6
<1>7. \A e \in Download : Alone(e)' <=> Alone(e)
  BY DEF Alone
<1> QED
  BY <1>3, <1>4, <1>5, <1>6, <1>7 DEF Reasons, At, Begins

\* The same for a step that leaves every part and every link alone.
LEMMA ReasonsStay ==
    ASSUME Inv, Reasons, NEW d \in Download,
           ~At(d, "off"), runs' = runs, trouble => trouble', part' = part, linked' = linked,
           \A e \in Download \ {d} : task'[e] = task[e],
           task'[d].at \in {"retry", "sleep"} => trouble',
           Alone(d) => LinkSeen(d)' /\ (task'[d].at = "failed" => trouble')
    PROVE  Reasons'
<1>1. PICK g \in File : g = Now(d)
  BY NowIsFile
<1>2. ~trouble' => Begins(PartOf(g)', g)
  <2>1. ~trouble => Begins(PartOf(g), g)
    BY DEF Reasons
  <2>2. PartOf(g)' = PartOf(g)
    BY DEF PartOf
  <2> QED
    BY <2>1, <2>2
<1> QED
  BY <1>1, <1>2, ReasonsKeep

\* And for one that goes to a point where nothing is asked of it.
LEMMA PlainReasons ==
    ASSUME Inv, Reasons, NEW d \in Download,
           ~At(d, "off"), runs' = runs, trouble => trouble', part' = part, linked' = linked,
           \A e \in Download \ {d} : task'[e] = task[e],
           task'[d].at \notin {"unlink", "symlink"},
           task'[d].at \in {"retry", "sleep", "failed"} => trouble'
    PROVE  Reasons'
<1>1. LinkSeen(d)'
  BY DEF LinkSeen, At
<1> QED
  BY <1>1, ReasonsStay

\* Leaving, as a task that failed or was paused.
LEMMA LeaveFacts ==
    ASSUME Inv, NEW d \in Download, NEW point \in Points, Leave(d, point)
    PROVE  /\ \A e \in Download \ {d} : task'[e] = task[e]
           /\ task'[d].at = point
           /\ runs' = runs
<1>1. TypeOK /\ task[d].n \in Nat \ {0}
  BY NowIsFile DEF Inv
<1> QED
  BY <1>1, FreshFacts DEF Leave, Keep

\* Going on to the next file, or to linking.
LEMMA NextFileGoes ==
    ASSUME Inv, NEW d \in Download, NextFile(d)
    PROVE  /\ \A e \in Download \ {d} : task'[e] = task[e]
           /\ task'[d].at \in {"next", "link"}
<1>1. TypeOK /\ task[d].n \in Nat \ {0} /\ task[d].n + 1 \in Nat \ {0} /\ 1 \in Nat \ {0}
  BY NowIsFile DEF Inv
<1>2. "next" \in Points /\ "link" \in Points
  BY DEF Points, Linking
<1> QED
  BY <1>1, <1>2, FreshFacts DEF NextFile

LEMMA LookReasons == ASSUME Inv, Reasons, NEW d \in Download, Look(d) PROVE Reasons'
<1>1. /\ ~At(d, "off") /\ runs' = runs /\ trouble' = trouble /\ part' = part /\ linked' = linked
      /\ TypeOK /\ (NextFile(d) \/ Go(d, "locking"))
  BY DEF Look, At, Quiet, Keep, disk, Inv
<1>2. /\ \A e \in Download \ {d} : task'[e] = task[e]
      /\ task'[d].at \in {"next", "link", "locking"}
  BY <1>1, NextFileGoes, GoFacts DEF Points
<1> QED
  BY <1>1, <1>2, PlainReasons

LEMMA TryLockReasons == ASSUME Inv, Reasons, NEW d \in Download, TryLock(d) PROVE Reasons'
<1>1. /\ ~At(d, "off") /\ runs' = runs /\ trouble' = trouble /\ part' = part /\ linked' = linked
      /\ TypeOK /\ (Go(d, "locked") \/ Go(d, "waiting"))
  BY DEF TryLock, At, Keep, disk, Inv
<1>2. /\ \A e \in Download \ {d} : task'[e] = task[e]
      /\ task'[d].at \in {"locked", "waiting"}
  BY <1>1, GoFacts DEF Points, Locked
<1> QED
  BY <1>1, <1>2, PlainReasons

LEMMA TryAgainReasons == ASSUME Inv, Reasons, NEW d \in Download, TryAgain(d) PROVE Reasons'
<1>1. /\ ~At(d, "off") /\ runs' = runs /\ trouble' = trouble /\ part' = part /\ linked' = linked
      /\ TypeOK /\ Go(d, "locking")
  BY DEF TryAgain, At, Quiet, Keep, disk, Inv
<1>2. /\ \A e \in Download \ {d} : task'[e] = task[e]
      /\ task'[d].at = "locking"
  BY <1>1, GoFacts DEF Points
<1> QED
  BY <1>1, <1>2, PlainReasons

LEMMA RecheckReasons == ASSUME Inv, Reasons, NEW d \in Download, Recheck(d) PROVE Reasons'
<1>1. /\ ~At(d, "off") /\ runs' = runs /\ trouble' = trouble /\ part' = part /\ linked' = linked
      /\ TypeOK /\ (NextFile(d) \/ Go(d, "reuse"))
  BY DEF Recheck, At, Keep, disk, Inv
<1>2. /\ \A e \in Download \ {d} : task'[e] = task[e]
      /\ task'[d].at \in {"next", "link", "reuse"}
  BY <1>1, NextFileGoes, GoFacts DEF Points, Locked
<1> QED
  BY <1>1, <1>2, PlainReasons

LEMMA ReuseReasons == ASSUME Inv, Reasons, NEW d \in Download, Reuse(d) PROVE Reasons'
<1>1. /\ ~At(d, "off") /\ runs' = runs /\ trouble' = trouble /\ part' = part /\ linked' = linked
      /\ TypeOK /\ (Go(d, "takeOld") \/ Go(d, "measure"))
  BY DEF Reuse, At, Quiet, Keep, Inv
<1>2. /\ \A e \in Download \ {d} : task'[e] = task[e]
      /\ task'[d].at \in {"takeOld", "measure"}
  BY <1>1, GoFacts DEF Points, Locked
<1> QED
  BY <1>1, <1>2, PlainReasons

\* The one byte that is taken over from hf-hub is the first.
LEMMA TakeOldReasons == ASSUME Inv, Reasons, NEW d \in Download, TakeOld(d) PROVE Reasons'
<1>1. PICK g \in File : g = Now(d)
  BY NowIsFile
<1>2. /\ ~At(d, "off") /\ runs' = runs /\ trouble' = trouble /\ linked' = linked
      /\ TypeOK /\ Go(d, "measure")
      /\ part' = [part EXCEPT ![g] = IF Size[g] = 0 THEN <<>> ELSE <<1>>]
  BY <1>1 DEF TakeOld, At, Quiet, Keep, Inv
<1>3. /\ \A e \in Download \ {d} : task'[e] = task[e]
      /\ task'[d].at = "measure"
  BY <1>2, GoFacts DEF Points, Locked
<1>4. /\ \A f \in File \ {g} : part'[f] = part[f]
      /\ part'[g] = IF Size[g] = 0 THEN <<>> ELSE <<1>>
  BY <1>2 DEF TypeOK
<1>5. Begins(PartOf(g)', g)
  <2>1. PartOf(g)' = IF Size[g] = 0 THEN <<>> ELSE <<1>>
    <3>1. <<1>> \in Content /\ None \notin Content
      BY DEF Content
    <3>2. <<1>> # None
      BY <3>1
    <3> QED
      BY <3>2, <1>4 DEF PartOf
  <2>2. Begins(<<>>, g) /\ (Size[g] # 0 => Begins(<<1>>, g))
    BY DEF Begins
  <2> QED
    BY <2>1, <2>2
<1>6. LinkSeen(d)'
  BY <1>3 DEF LinkSeen, At
<1> QED
  BY <1>1, <1>2, <1>3, <1>4, <1>5, <1>6, ReasonsKeep

\* A part that is left, or thrown away, is a beginning as before.
LEMMA LeftOrGone ==
    ASSUME Reasons, NEW g \in File, PartOf(g)' \in {<<>>, PartOf(g)}, trouble => trouble'
    PROVE  ~trouble' => Begins(PartOf(g)', g)
<1>1. ~trouble' => Begins(PartOf(g), g)
  BY DEF Reasons
<1>2. Begins(<<>>, g)
  BY DEF Begins
<1> QED
  BY <1>1, <1>2

LEMMA MeasureReasons == ASSUME Inv, Reasons, NEW d \in Download, Measure(d) PROVE Reasons'
<1> DEFINE content == IF part[Now(d)] = None \/ Len(part[Now(d)]) > Size[Now(d)]
                      THEN <<>> ELSE part[Now(d)]
           point == IF Len(content) = Size[Now(d)] THEN "verify" ELSE "request"
           new == [task[d] EXCEPT !.at = point, !.hash = content, !.before = Length(part[Now(d)])]
<1>1. PICK g \in File : g = Now(d)
  BY NowIsFile
<1>2. /\ ~At(d, "off") /\ runs' = runs /\ trouble' = trouble /\ linked' = linked
      /\ part \in [File -> Content \union {None}] /\ task \in [Download -> Task]
      /\ part' = [part EXCEPT ![g] = IF Length(@) > Size[g] THEN None ELSE @]
      /\ task' = [task EXCEPT ![d] = new]
  BY <1>1 DEF Measure, At, Quiet, Keep, Inv, TypeOK
<1>3. /\ \A e \in Download \ {d} : task'[e] = task[e]
      /\ task'[d] = new /\ task[d] \in Task
  BY <1>2
<1>4. task'[d].at \in {"verify", "request"}
  BY <1>3 DEF Task
<1>5. /\ \A f \in File \ {g} : part'[f] = part[f]
      /\ part'[g] = None \/ part'[g] = part[g]
  BY <1>2
<1>6. PartOf(g)' \in {<<>>, PartOf(g)}
  BY <1>5 DEF PartOf
<1>7. LinkSeen(d)'
  BY <1>4 DEF LinkSeen, At
<1> QED
  BY <1>1, <1>2, <1>3, <1>4, <1>5, <1>6, <1>7, LeftOrGone, ReasonsKeep

LEMMA AnsweredReasons ==
    ASSUME Inv, Reasons, NEW d \in Download, NEW ranged \in BOOLEAN, Answered(d, ranged)
    PROVE  Reasons'
<1> DEFINE hash == IF ranged THEN task[d].hash ELSE <<>>
           new == [task[d] EXCEPT !.at = "stream", !.pos = Len(hash), !.hash = hash,
                                  !.kept = Len(hash)]
<1>1. PICK g \in File : g = Now(d)
  BY NowIsFile
<1>2. /\ ~At(d, "off") /\ runs' = runs /\ trouble' = trouble /\ linked' = linked
      /\ part \in [File -> Content \union {None}] /\ task \in [Download -> Task]
      /\ part' = [part EXCEPT ![g] = IF hash = <<>> \/ @ = None THEN <<>> ELSE @]
      /\ task' = [task EXCEPT ![d] = new]
  BY <1>1 DEF Answered, At, Quiet, Keep, Inv, TypeOK
<1>3. /\ \A e \in Download \ {d} : task'[e] = task[e]
      /\ task'[d] = new /\ task[d] \in Task
  BY <1>2
<1>4. task'[d].at = "stream"
  BY <1>3 DEF Task
<1>5. /\ \A f \in File \ {g} : part'[f] = part[f]
      /\ part'[g] = <<>> \/ (part[g] # None /\ part'[g] = part[g])
  BY <1>2
<1>6. PartOf(g)' \in {<<>>, PartOf(g)}
  BY <1>5 DEF PartOf
<1>7. LinkSeen(d)'
  BY <1>4 DEF LinkSeen, At
<1> QED
  BY <1>1, <1>2, <1>3, <1>4, <1>5, <1>6, <1>7, LeftOrGone, ReasonsKeep

\* One byte more.
LEMMA Appended ==
    ASSUME NEW c \in Seq(Nat), NEW b \in Nat
    PROVE  /\ Append(c, b) \in Seq(Nat) /\ Len(Append(c, b)) = Len(c) + 1
           /\ \A k \in 1 .. Len(Append(c, b)) : Append(c, b)[k] = IF k = Len(c) + 1 THEN b ELSE c[k]
OBVIOUS

\* The byte that arrives while nothing goes wrong is the next of the file.
LEMMA ChunkReasons ==
    ASSUME Inv, Reasons, NEW d \in Download, NEW byte \in Wire(d), Chunk(d, byte)
    PROVE  Reasons'
<1> DEFINE hash == Append(task[d].hash, byte)
           new == [task[d] EXCEPT !.hash = hash, !.pos = task[d].pos + 1]
<1>1. PICK g \in File : g = Now(d)
  BY NowIsFile
<1>2. /\ At(d, "stream") /\ runs' = runs /\ linked' = linked
      /\ trouble' = (trouble \/ byte = 0 \/ task[d].pos >= Size[g])
      /\ part \in [File -> Content \union {None}] /\ task \in [Download -> Task]
      /\ part' = [part EXCEPT ![g] = Append(@, byte)]
      /\ task' = [task EXCEPT ![d] = new]
  BY <1>1 DEF Chunk, Quiet, Keep, Inv, TypeOK
<1>3. /\ \A e \in Download \ {d} : task'[e] = task[e]
      /\ task'[d] = new /\ task[d] \in Task
  BY <1>2
<1>4. task'[d].at = "stream" /\ task[d].hash \in Content /\ task[d].pos \in Nat
  BY <1>2, <1>3 DEF Task, At
<1>5. /\ part[g] = task[d].hash /\ PartOf(g) = task[d].hash
      /\ task[d].pos = Len(task[d].hash)
  BY <1>1, <1>2 DEF Inv, KnowsPart, At, PartOf
<1>6. /\ \A f \in File \ {g} : part'[f] = part[f]
      /\ part'[g] = hash
  BY <1>2, <1>5
<1>7. byte \in Nat /\ byte \in {0, task[d].pos + 1}
  BY <1>4 DEF Wire
<1>8. /\ hash \in Content /\ Len(hash) = task[d].pos + 1 /\ None \notin Content
      /\ \A k \in 1 .. Len(hash) : hash[k] = IF k = task[d].pos + 1 THEN byte ELSE task[d].hash[k]
  <2>1. task[d].hash \in Seq(Nat) /\ task[d].pos = Len(task[d].hash) /\ byte \in Nat
    BY <1>4, <1>5, <1>7 DEF Content
  <2>2. /\ hash \in Seq(Nat) /\ Len(hash) = Len(task[d].hash) + 1
        /\ \A k \in 1 .. Len(hash) :
              hash[k] = IF k = Len(task[d].hash) + 1 THEN byte ELSE task[d].hash[k]
    BY <2>1, Appended, Zenon
  <2> HIDE DEF hash
  <2> QED
    BY <2>1, <2>2 DEF Content
<1> HIDE DEF hash, new
<1>9. PartOf(g)' = hash
  BY <1>6, <1>8 DEF PartOf
<1>10. ASSUME ~trouble'
       PROVE  Begins(hash, g)
  <2>1. ~trouble /\ byte = task[d].pos + 1 /\ ~(task[d].pos >= Size[g]) /\ Size[g] \in Nat
    BY <1>10, <1>2, <1>7
  <2>2. \A k \in 1 .. Len(task[d].hash) : task[d].hash[k] = k
    BY <2>1, <1>5 DEF Reasons, Begins
  <2>3. \A k \in 1 .. Len(hash) : k = task[d].pos + 1 \/ k \in 1 .. Len(task[d].hash)
    BY <1>4, <1>5, <1>8
  <2>4. \A k \in 1 .. Len(hash) : hash[k] = k
    BY <2>1, <2>2, <2>3, <1>8
  <2> QED
    BY <2>1, <2>4, <1>4, <1>8 DEF Begins
<1>11. LinkSeen(d)' /\ ~At(d, "off") /\ (trouble => trouble')
  BY <1>2, <1>4 DEF LinkSeen, At
<1> QED
  BY <1>1, <1>2, <1>3, <1>4, <1>6, <1>9, <1>10, <1>11, ReasonsKeep

LEMMA StreamEndsReasons ==
    ASSUME Inv, Reasons, NEW d \in Download, StreamEnds(d) PROVE Reasons'
<1> DEFINE whole == Len(task[d].hash) = Size[Now(d)]
<1>1. /\ ~At(d, "off") /\ runs' = runs /\ part' = part /\ linked' = linked
      /\ TypeOK /\ Go(d, IF whole THEN "verify" ELSE "retry") /\ (trouble \/ ~whole => trouble')
  BY DEF StreamEnds, At, Keep, disk, Inv
<1> HIDE DEF whole
<1>2. /\ \A e \in Download \ {d} : task'[e] = task[e]
      /\ task'[d].at = IF whole THEN "verify" ELSE "retry"
  BY <1>1, GoFacts DEF Points, Locked
<1> QED
  BY <1>1, <1>2, PlainReasons

LEMMA BreaksReasons == ASSUME Inv, Reasons, NEW d \in Download, Breaks(d) PROVE Reasons'
<1>1. /\ ~At(d, "off") /\ runs' = runs /\ trouble' = TRUE /\ part' = part /\ linked' = linked
      /\ TypeOK /\ Go(d, "retry")
  BY DEF Breaks, At, Keep, disk, Inv
<1>2. /\ \A e \in Download \ {d} : task'[e] = task[e]
      /\ task'[d].at = "retry"
  BY <1>1, GoFacts DEF Points, Locked
<1> QED
  BY <1>1, <1>2, PlainReasons

LEMMA RefusedReasons == ASSUME Inv, Reasons, NEW d \in Download, Refused(d) PROVE Reasons'
<1>1. PICK g \in File : g = Now(d)
  BY NowIsFile
<1>2. /\ ~At(d, "off") /\ trouble' = TRUE /\ linked' = linked /\ Leave(d, "failed")
      /\ \A f \in File \ {g} : part'[f] = part[f]
  BY <1>1 DEF Refused, Fails, At, Locked, Inv, TypeOK
<1>3. /\ \A e \in Download \ {d} : task'[e] = task[e]
      /\ task'[d].at = "failed" /\ runs' = runs
  BY <1>2, LeaveFacts DEF Points, Ended
<1>4. LinkSeen(d)'
  BY <1>3 DEF LinkSeen, At
<1> QED
  BY <1>1, <1>2, <1>3, <1>4, ReasonsKeep

\* A retry that gives up follows an error.
LEMMA RetryReasons == ASSUME Inv, Reasons, NEW d \in Download, Retry(d) PROVE Reasons'
<1> DEFINE count == IF Length(part[Now(d)]) > task[d].before THEN 0 ELSE task[d].retries
           new == [task[d] EXCEPT !.at = "sleep", !.retries = count + 1]
<1>1. /\ At(d, "retry") /\ trouble' = trouble /\ part' = part /\ linked' = linked
      /\ task \in [Download -> Task]
      /\ Leave(d, "failed") \/ (task' = [task EXCEPT ![d] = new] /\ runs' = runs)
  BY DEF Retry, Fails, Keep, disk, Inv, TypeOK
<1>2. trouble /\ ~At(d, "off")
  BY <1>1 DEF Reasons, At
<1> HIDE DEF count
<1>3. /\ \A e \in Download \ {d} : task'[e] = task[e]
      /\ task'[d].at \in {"failed", "sleep"} /\ runs' = runs
  <2>1. CASE Leave(d, "failed")
    BY <2>1, LeaveFacts DEF Points, Ended
  <2>2. CASE task' = [task EXCEPT ![d] = new] /\ runs' = runs
    <3>1. task'[d] = new /\ task[d] \in Task
      BY <2>2, <1>1
    <3>2. task'[d].at = "sleep"
      BY <3>1 DEF Task
    <3> QED
      BY <2>2, <3>2, <1>1
  <2> QED
    BY <2>1, <2>2, <1>1
<1> QED
  BY <1>1, <1>2, <1>3, PlainReasons

LEMMA WakeReasons == ASSUME Inv, Reasons, NEW d \in Download, Wake(d) PROVE Reasons'
<1>1. /\ ~At(d, "off") /\ runs' = runs /\ trouble' = trouble /\ part' = part /\ linked' = linked
      /\ TypeOK /\ Go(d, "measure")
  BY DEF Wake, At, Quiet, Keep, disk, Inv
<1>2. /\ \A e \in Download \ {d} : task'[e] = task[e]
      /\ task'[d].at = "measure"
  BY <1>1, GoFacts DEF Points, Locked
<1> QED
  BY <1>1, <1>2, PlainReasons

\* A part that is as long as its file, and a beginning of it, is the file.
LEMMA WholeIsRight ==
    ASSUME NEW f \in File, NEW c \in Content, Begins(c, f), Len(c) = Size[f]
    PROVE  c = Right(f)
<1>1. c \in Seq(Nat) /\ DOMAIN c = 1 .. Size[f] /\ \A k \in 1 .. Size[f] : c[k] = k
  BY DEF Begins, Content
<1>2. c = [k \in 1 .. Size[f] |-> c[k]]
  BY <1>1
<1> QED
  BY <1>1, <1>2 DEF Right

\* A hash that is wrong had a byte that was.
LEMMA VerifyReasons == ASSUME Inv, Reasons, NEW d \in Download, Verify(d) PROVE Reasons'
<1>1. PICK g \in File : g = Now(d)
  BY NowIsFile
<1>2. /\ At(d, "verify") /\ ~At(d, "off") /\ trouble' = trouble /\ linked' = linked /\ TypeOK
  BY DEF Verify, At, Inv
<1>3. task[d].hash = PartOf(g) /\ Len(task[d].hash) = Size[g] /\ task[d].hash \in Content
  BY <1>1, <1>2 DEF Inv, KnowsPart, At, TypeOK, Task
<1>4. CASE /\ task[d].hash # Right(g)
           /\ part' = [part EXCEPT ![g] = None] /\ Fails(d)
  <2>1. trouble
    BY <1>3, <1>4, WholeIsRight DEF Reasons
  <2>2. /\ \A e \in Download \ {d} : task'[e] = task[e]
        /\ task'[d].at = "failed" /\ runs' = runs
    BY <1>4, LeaveFacts DEF Fails, Points, Ended
  <2>3. \A f \in File \ {g} : part'[f] = part[f]
    BY <1>2, <1>4 DEF TypeOK
  <2>4. LinkSeen(d)'
    BY <2>2 DEF LinkSeen, At
  <2> QED
    BY <1>1, <1>2, <2>1, <2>2, <2>3, <2>4, ReasonsKeep
<1>5. CASE Go(d, "rename") /\ UNCHANGED <<part, holder>> /\ Keep
  <2>1. /\ \A e \in Download \ {d} : task'[e] = task[e]
        /\ task'[d].at = "rename" /\ runs' = runs /\ part' = part
    BY <1>2, <1>5, GoFacts DEF Points, Locked, Keep
  <2> QED
    BY <1>2, <2>1, PlainReasons
<1> QED
  BY <1>1, <1>4, <1>5 DEF Verify

\* A file that is not empty has a part to rename.
LEMMA RenameReasons ==
    ASSUME NoEmptyFile, Inv, Reasons, NEW d \in Download, Rename(d)
    PROVE  Reasons'
<1>1. PICK g \in File : g = Now(d)
  BY NowIsFile
<1>2. At(d, "rename") /\ ~At(d, "off") /\ trouble' = trouble /\ linked' = linked /\ TypeOK
  BY DEF Rename, At, Inv
<1>3. task[d].hash = PartOf(g) /\ Len(task[d].hash) = Size[g] /\ Size[g] > 0
  BY <1>1, <1>2 DEF Inv, KnowsPart, At, NoEmptyFile
<1>4. part[g] # None
  BY <1>3 DEF PartOf
<1>5. part' = [part EXCEPT ![g] = None] /\ NextFile(d) /\ Keep
  BY <1>1, <1>4 DEF Rename
<1>6. /\ \A e \in Download \ {d} : task'[e] = task[e]
      /\ task'[d].at \in {"next", "link"} /\ runs' = runs
  BY <1>5, NextFileGoes DEF Keep
<1>7. /\ \A f \in File \ {g} : part'[f] = part[f]
      /\ PartOf(g)' = <<>>
  BY <1>2, <1>5 DEF TypeOK, PartOf
<1>8. LinkSeen(d)'
  BY <1>6 DEF LinkSeen, At
<1> QED
  BY <1>1, <1>2, <1>6, <1>7, <1>8, LeftOrGone, ReasonsKeep

LEMMA LinkLookReasons == ASSUME Inv, Reasons, NEW d \in Download, LinkLook(d) PROVE Reasons'
<1>1. /\ ~At(d, "off") /\ runs' = runs /\ trouble' = trouble /\ part' = part /\ linked' = linked
      /\ TypeOK /\ Go(d, IF Now(d) \in linked THEN "unlink" ELSE "symlink")
  BY DEF LinkLook, At, Quiet, Keep, disk, Inv
<1>2. /\ \A e \in Download \ {d} : task'[e] = task[e]
      /\ task'[d].at = (IF Now(d) \in linked THEN "unlink" ELSE "symlink")
      /\ task'[d].n = task[d].n
  BY <1>1, GoFacts DEF Points, Linking
<1>3. LinkSeen(d)'
  BY <1>1, <1>2 DEF LinkSeen, At, Now
<1> QED
  BY <1>1, <1>2, <1>3, ReasonsStay

\* Who is alone removes the link that was there.
LEMMA UnlinkReasons == ASSUME Inv, Reasons, NEW d \in Download, Unlink(d) PROVE Reasons'
<1> DEFINE point == IF Now(d) \in linked THEN "symlink" ELSE "failed"
<1>1. PICK g \in File : g = Now(d)
  BY NowIsFile
<1>2. /\ At(d, "unlink") /\ ~At(d, "off") /\ runs' = runs /\ trouble' = trouble /\ part' = part
      /\ linked' = linked \ {g} /\ TypeOK /\ Go(d, point)
  BY <1>1 DEF Unlink, At, Quiet, Keep, Inv
<1>3. point \in Points /\ point \in {"symlink", "failed"}
  BY DEF Points, Linking, Ended
<1>4. Alone(d) => point = "symlink"
  BY <1>2 DEF Reasons, LinkSeen
<1> HIDE DEF point
<1>5. /\ \A e \in Download \ {d} : task'[e] = task[e]
      /\ task'[d].at = point /\ task'[d].n = task[d].n
  BY <1>2, <1>3, GoFacts
<1>6. LinkSeen(d)' /\ (Alone(d) => task'[d].at # "failed")
  BY <1>1, <1>2, <1>3, <1>4, <1>5 DEF LinkSeen, At, Now
<1>7. PartOf(g)' = PartOf(g)
  BY <1>2 DEF PartOf
<1>8. \A f \in File \ {g} : f \in linked' <=> f \in linked
  BY <1>2
<1> QED
  BY <1>1, <1>2, <1>3, <1>5, <1>6, <1>7, <1>8, LeftOrGone, ReasonsKeep

\* Who is alone finds no link where it puts its own.
LEMMA SymlinkReasons == ASSUME Inv, Reasons, NEW d \in Download, Symlink(d) PROVE Reasons'
<1>1. PICK g \in File : g = Now(d)
  BY NowIsFile
<1>2. /\ At(d, "symlink") /\ ~At(d, "off") /\ runs' = runs /\ trouble' = trouble /\ part' = part
      /\ linked' = linked \union {g} /\ TypeOK
      /\ IF g \in linked THEN Go(d, "failed") ELSE Linked(d)
  BY <1>1 DEF Symlink, At, Quiet, Keep, Inv
<1>3. Alone(d) => g \notin linked
  BY <1>1, <1>2 DEF Reasons, LinkSeen
<1>4. /\ \A e \in Download \ {d} : task'[e] = task[e]
      /\ task'[d].at \in {"link", "done", "failed"}
      /\ g \notin linked => task'[d].at # "failed"
  <2>1. ASSUME NEW point \in {"failed", "done"}, Go(d, point)
        PROVE  task'[d].at = point /\ \A e \in Download \ {d} : task'[e] = task[e]
    BY <2>1, <1>2, GoFacts DEF Points, Ended
  <2>2. CASE task' = [task EXCEPT ![d].at = "link", ![d].n = @ + 1]
    <3>1. task \in [Download -> Task] /\ task[d] \in Task
      BY <1>2 DEF TypeOK
    <3>2. task' = [task EXCEPT ![d] = [task[d] EXCEPT !.at = "link", !.n = task[d].n + 1]]
      BY <2>2
    <3>3. task'[d] = [task[d] EXCEPT !.at = "link", !.n = task[d].n + 1]
      BY <3>1, <3>2
    <3>4. task'[d].at = "link"
      BY <3>1, <3>3 DEF Task
    <3> QED
      BY <3>1, <3>2, <3>4
  <2>3. CASE g \in linked
    BY <1>2, <2>1, <2>3
  <2>4. CASE g \notin linked
    BY <1>2, <2>1, <2>2, <2>4 DEF Linked
  <2> QED
    BY <2>3, <2>4
<1>5. LinkSeen(d)'
  BY <1>4 DEF LinkSeen, At
<1>6. PartOf(g)' = PartOf(g)
  BY <1>2 DEF PartOf
<1>7. \A f \in File \ {g} : f \in linked' <=> f \in linked
  BY <1>2
<1> QED
  BY <1>1, <1>2, <1>3, <1>4, <1>5, <1>6, <1>7, LeftOrGone, ReasonsKeep

LEMMA DiskFailsReasons == ASSUME Inv, Reasons, NEW d \in Download, DiskFails(d) PROVE Reasons'
<1>1. /\ ~At(d, "off") /\ runs' = runs /\ trouble' = TRUE /\ part' = part /\ linked' = linked
      /\ TypeOK /\ Go(d, "failed")
  BY DEF DiskFails, At, Linking, Keep, disk, Inv
<1>2. /\ \A e \in Download \ {d} : task'[e] = task[e]
      /\ task'[d].at = "failed"
  BY <1>1, GoFacts DEF Points, Ended
<1> QED
  BY <1>1, <1>2, PlainReasons

LEMMA PauseReasons == ASSUME Inv, Reasons, NEW d \in Download, Pause(d) PROVE Reasons'
<1>1. /\ ~At(d, "off") /\ trouble' = trouble /\ part' = part /\ linked' = linked /\ TypeOK
      /\ (Go(d, "paused") /\ Keep) \/ Leave(d, "paused")
  BY DEF Pause, At, disk, Inv
<1>2. /\ \A e \in Download \ {d} : task'[e] = task[e]
      /\ task'[d].at = "paused" /\ runs' = runs
  BY <1>1, GoFacts, LeaveFacts DEF Points, Ended, Keep
<1> QED
  BY <1>1, <1>2, PlainReasons

\* A download that is begun anew has not failed yet.
LEMMA BeginReasons == ASSUME Inv, Reasons, NEW d \in Download, Begin(d) PROVE Reasons'
<1>1. /\ trouble' = trouble /\ part' = part /\ linked' = linked /\ TypeOK
      /\ task' = [task EXCEPT ![d] = Fresh("next", 1)] /\ runs' = [runs EXCEPT ![d] = @ + 1]
  BY DEF Begin, disk, Inv
<1>2. /\ \A e \in Download \ {d} : task'[e] = task[e]
      /\ task'[d].at = "next"
  <2>1. "next" \in Points /\ 1 \in Nat \ {0}
    BY DEF Points
  <2> QED
    BY <1>1, <2>1, FreshFacts
<1>3. /\ \A e \in Download \ {d} : runs'[e] = runs[e]
      /\ runs'[d] # 0 /\ runs[d] \in Nat
  BY <1>1 DEF TypeOK
<1>4. ~trouble' => \A f \in File : Begins(PartOf(f)', f)
  BY <1>1 DEF Reasons, PartOf
<1>5. ~trouble' => \A e \in Download : task'[e].at \notin {"retry", "sleep"}
  BY <1>1, <1>2 DEF Reasons
<1>6. \A e \in Download : runs'[e] = 0 => task'[e].at = "off"
  BY <1>2, <1>3 DEF Reasons, At
<1>7. ASSUME NEW e \in Download, Alone(e)'
      PROVE  LinkSeen(e)' /\ (task'[e].at = "failed" => trouble')
  <2>1. CASE e = d
    BY <1>2, <2>1 DEF LinkSeen, At
  <2>2. CASE e # d
    <3>1. Alone(e)
      BY <1>3, <1>7 DEF Alone
    <3>2. LinkSeen(e) /\ (At(e, "failed") => trouble) /\ task'[e] = task[e]
      BY <1>2, <2>2, <3>1 DEF Reasons
    <3> QED
      BY <1>1, <3>2 DEF LinkSeen, At, Now
  <2> QED
    BY <2>1, <2>2
<1> QED
  BY <1>4, <1>5, <1>6, <1>7 DEF Reasons, At, Begins

LEMMA CancelReasons == ASSUME Inv, Reasons, NEW d \in Download, Cancel(d) PROVE Reasons'
<1>1. UNCHANGED <<trouble, part, linked, task, runs>>
  BY DEF Cancel, disk
<1> QED
  BY <1>1 DEF Reasons, Alone, LinkSeen, At, Now, PartOf

\* With no download running, nothing is to be explained.
LEMMA IdleReasons ==
    ASSUME task' = [d \in Download |-> Fresh("off", 1)],
           ~trouble' => \A f \in File : part'[f] = None
    PROVE  Reasons'
<1>1. \A d \in Download : task'[d].at = "off"
  BY DEF Fresh
<1>2. ~trouble' => \A f \in File : Begins(PartOf(f)', f)
  BY DEF PartOf, Begins
<1> QED
  BY <1>1, <1>2 DEF Reasons, LinkSeen, At, Begins

LEMMA InitReasons == ASSUME Init PROVE Reasons
<1>1. \A d \in Download : task[d].at = "off"
  BY DEF Init, Fresh
<1>2. \A f \in File : Begins(PartOf(f), f)
  BY DEF Init, PartOf, Begins
<1> QED
  BY <1>1, <1>2 DEF Reasons, LinkSeen, At

LEMMA NextReasons == ASSUME NoEmptyFile, Inv, Reasons, [Next]_vars PROVE Reasons'
<1>1. ASSUME NEW d \in Download, Work(d)
      PROVE  Reasons'
  BY <1>1, LookReasons, TryLockReasons, TryAgainReasons, RecheckReasons, ReuseReasons,
     TakeOldReasons, MeasureReasons, StreamEndsReasons, BreaksReasons, RefusedReasons,
     RetryReasons, WakeReasons, VerifyReasons, RenameReasons, LinkLookReasons, UnlinkReasons,
     SymlinkReasons, DiskFailsReasons, AnsweredReasons, ChunkReasons
     DEF Work, Answers
<1>2. ASSUME NEW d \in Download, Pause(d) \/ Begin(d) \/ Cancel(d)
      PROVE  Reasons'
  BY <1>2, PauseReasons, BeginReasons, CancelReasons
<1>3. CASE Remove
  BY <1>3, IdleReasons DEF Remove
<1>4. CASE Crash
  BY <1>4, IdleReasons DEF Crash
<1>5. CASE UNCHANGED vars
  <2>1. UNCHANGED <<trouble, part, linked, task, runs>>
    BY <1>5 DEF vars
  <2> QED
    BY <2>1 DEF Reasons, Alone, LinkSeen, At, Now, PartOf
<1> QED
  BY <1>1, <1>2, <1>3, <1>4, <1>5 DEF Next

\* A download that shares no file with another fails only when the server, the
\* disk or a crash gave it a reason, whatever pauses and new beginnings came
\* before: the ranges, hashes, retries and links of this code give none (fetch,
\* fetch_once, fetch_blob, link).
THEOREM FailuresHaveAReason ==
    ASSUME NoEmptyFile
    PROVE  Spec => []FailsForAReason
<1>1. Init => Inv /\ Reasons
  BY InitInv, InitReasons
<1>2. Inv /\ Reasons /\ [Next]_vars => (Inv /\ Reasons)'
  BY NextInv, NextReasons
<1>3. Reasons => FailsForAReason
  BY DEF Reasons, FailsForAReason
<1> QED
  BY <1>1, <1>2, <1>3, PTL DEF Spec

-------------------------------------------------------------------------------
(* Downloads implement the abstract cache *)

\* Only Rename stores a blob; the steps that leave blobs and links alone are
\* steps the cache does not see.
LEMMA OtherStepsUnseen ==
    ASSUME UNCHANGED <<blob, linked>>
    PROVE  UNCHANGED <<{f \in File : Complete(f)}, linked>>
BY DEF Complete

LEMMA RenameStores ==
    ASSUME Inv, Inv', NEW d \in Download, Rename(d)
    PROVE  [Cache!Next]_<<{f \in File : Complete(f)}, linked>>
<1>1. UNCHANGED linked
  BY DEF Rename
<1>2. CASE part[Now(d)] = None
  BY <1>1, <1>2, OtherStepsUnseen DEF Rename
<1>3. CASE part[Now(d)] # None
  <2>1. PICK g \in File : g = Now(d)
    BY NowIsFile
  <2>2. blob' = [blob EXCEPT ![g] = part[g]] /\ blob \in [File -> Content \union {None}]
    BY <1>3, <2>1 DEF Rename, Inv, TypeOK
  <2>3. blob'[g] = part[g] /\ \A f \in File \ {g} : blob'[f] = blob[f]
    BY <2>2
  <2>4. Complete(g)'
    BY <1>3, <2>1, <2>3 DEF Inv, DiskRight, Complete
  <2>5. \A f \in File : Complete(f)' <=> (Complete(f) \/ f = g)
    BY <2>3, <2>4 DEF Complete
  <2>6. {f \in File : Complete(f)}' = {f \in File : Complete(f)} \union {g}
    BY <2>5
  <2>7. Cache!Store(g)
    BY <1>1, <2>6 DEF Cache!Store
  <2> QED
    BY <2>7 DEF Cache!Next
<1> QED
  BY <1>2, <1>3

LEMMA SymlinkLinks ==
    ASSUME Inv, NEW d \in Download, Symlink(d)
    PROVE  [Cache!Next]_<<{f \in File : Complete(f)}, linked>>
<1>1. PICK g \in File : g = Now(d)
  BY NowIsFile
<1>2. linked' = linked \union {g} /\ UNCHANGED blob /\ task[d].at \in Linking
  BY <1>1 DEF Symlink, At, Linking
<1>3. Complete(g)
  <2>1. task[d].n \in DOMAIN Plan[d]
    BY NowIsFile
  <2> QED
    BY <1>1, <1>2, <2>1 DEF Inv, PassedComplete, Now
<1>4. {f \in File : Complete(f)}' = {f \in File : Complete(f)}
  BY <1>2 DEF Complete
<1>5. Cache!Link(g)
  BY <1>2, <1>3, <1>4 DEF Cache!Link
<1> QED
  BY <1>5 DEF Cache!Next

LEMMA UnlinkUnlinks ==
    ASSUME Inv, NEW d \in Download, Unlink(d)
    PROVE  [Cache!Next]_<<{f \in File : Complete(f)}, linked>>
<1>1. PICK g \in File : g = Now(d)
  BY NowIsFile
<1>2. linked' = linked \ {g} /\ UNCHANGED blob
  BY <1>1 DEF Unlink
<1>3. {f \in File : Complete(f)}' = {f \in File : Complete(f)}
  BY <1>2 DEF Complete
<1>4. Cache!Unlink(g)
  BY <1>2, <1>3 DEF Cache!Unlink
<1> QED
  BY <1>4 DEF Cache!Next

LEMMA RemoveRemoves ==
    ASSUME Remove
    PROVE  [Cache!Next]_<<{f \in File : Complete(f)}, linked>>
<1>1. linked' = {} /\ \A f \in File : blob'[f] = None
  BY DEF Remove
<1>2. {f \in File : Complete(f)}' = {}
  BY <1>1 DEF Complete
<1> QED
  BY <1>1, <1>2 DEF Cache!Next, Cache!Remove

\* The other steps of a download neither store nor link.
LEMMA QuietSteps ==
    ASSUME NEW d \in Download,
           (Work(d) /\ ~Rename(d) /\ ~Symlink(d) /\ ~Unlink(d)) \/ Pause(d) \/ Begin(d) \/ Cancel(d)
    PROVE  UNCHANGED <<blob, linked>>
BY DEF Work, Look, TryLock, TryAgain, Recheck, Reuse, TakeOld, Measure, StreamEnds, Breaks,
       Refused, Retry, Wake, Verify, LinkLook, DiskFails, Answered, Chunk, Pause, Begin, Cancel,
       Quiet, disk

\* Downloading implements the abstract cache: blobs appear whole, and only what is
\* there is linked (download, fetch_blob, link, and ModelDownload's delete).
THEOREM DownloadsImplementBlobCache == Spec => ImplementsBlobCache
<1>1. Init => Cache!Init
  BY DEF Init, Cache!Init, Complete
<1>2. Inv /\ Inv' /\ [Next]_vars => [Cache!Next]_<<{f \in File : Complete(f)}, linked>>
  <2> SUFFICES ASSUME Inv, Inv', [Next]_vars
               PROVE  [Cache!Next]_<<{f \in File : Complete(f)}, linked>>
    OBVIOUS
  <2>1. ASSUME NEW d \in Download, Work(d) \/ Pause(d) \/ Begin(d) \/ Cancel(d)
        PROVE  [Cache!Next]_<<{f \in File : Complete(f)}, linked>>
    BY <2>1, RenameStores, SymlinkLinks, UnlinkUnlinks, QuietSteps, OtherStepsUnseen
  <2>2. CASE Remove
    BY <2>2, RemoveRemoves
  <2>3. CASE Crash \/ UNCHANGED vars
    BY <2>3, OtherStepsUnseen DEF Crash, vars
  <2> QED
    BY <2>1, <2>2, <2>3 DEF Next
<1> QED
  BY <1>1, <1>2, InvHolds, PTL DEF Spec, ImplementsBlobCache, Cache!Spec
=============================================================================
