--------------------------------- MODULE Stm ---------------------------------
(***************************************************************************)
(* The shared object of lua-stm.c: one writer service publishes copies of  *)
(* a message, reader services on other threads look at them.  The object   *)
(* and its copies are freed by hand when their reference counts reach 0.   *)
(* rwlock is taken as a lock whose readers come in only while lock->write  *)
(* is 0 (RwLock has the spinning in full); every other access to shared    *)
(* memory is a step of its own.                                            *)
(***************************************************************************)
EXTENDS Integers, FiniteSets

CONSTANTS
  Readers,   \* services that open readers, positive numbers
  MaxCopy,   \* bound: versions that are published
  MaxGrab    \* bound: references handed out

\* What the code assumes of the constants.
StmConstants ==
  /\ IsFiniteSet(Readers) /\ Readers \subseteq Nat \ {0}
  /\ MaxCopy \in Nat \ {0} /\ MaxGrab \in Nat

VARIABLES
  reference, \* obj->reference
  copy,      \* obj->copy, 0 for NULL
  freed,     \* whether obj was given to skynet_free
  write,     \* lock->write
  read,      \* the threads in lock->read; 0 is the writer
  cref,      \* cref[c]: the reference of copy c
  gone,      \* copies given to skynet_free
  wpc, old,  \* the writer: where it is, oldcopy of stm_update
  made, grabs,   \* versions and references so far
  sent,      \* grabbed references on their way to a reader
  rpc, tmp, last,   \* the readers: where they are, copy of lread, box->lastcopy
  late       \* accesses to the object after it was freed

vars == <<reference, copy, freed, write, read, cref, gone, wpc, old, made, grabs,
          sent, rpc, tmp, last, late>>
objVars == <<reference, copy, freed, write, read>>
writerVars == <<wpc, old, made, grabs>>
readerVars == <<rpc, tmp, last>>

\* stm_new, by the writer.
Init ==
  /\ reference = 1 /\ copy = 1 /\ freed = FALSE /\ write = 0 /\ read = {}
  /\ cref = [c \in 1..MaxCopy |-> IF c = 1 THEN 1 ELSE 0] /\ gone = {}
  /\ wpc = "idle" /\ old = 0 /\ made = 1 /\ grabs = 0 /\ sent = 0
  /\ rpc = [r \in Readers |-> "none"] /\ tmp = [r \in Readers |-> 0]
  /\ last = [r \in Readers |-> 0] /\ late = {}

\* Every access to the object goes through here.
Touch(what) == late' = IF freed THEN late \cup {what} ELSE late

\* stm_releasecopy.
ReleaseCopy(c) ==
  IF c = 0 THEN UNCHANGED <<cref, gone>>
  ELSE /\ cref' = [cref EXCEPT ![c] = @ - 1]
       /\ gone' = IF cref[c] = 1 THEN gone \cup {c} ELSE gone

-----------------------------------------------------------------------------
(* The writer: stm_grab, stm_update, stm_release.                          *)
W(from, to) == wpc = from /\ wpc' = to

GrabLock ==
  /\ W("idle", "grab") /\ write = 0 /\ grabs < MaxGrab /\ read' = read \cup {0}
  /\ Touch("grab") /\ UNCHANGED <<reference, copy, freed, write, cref, gone, old, made, grabs, sent, readerVars>>
\* An operator named Bad... is a plausible error in the one after it.
Grab ==
  /\ W("grab", "idle") /\ reference' = reference + 1 /\ grabs' = grabs + 1 /\ sent' = sent + 1
  /\ read' = read \ {0} /\ Touch("grab")
  /\ UNCHANGED <<copy, freed, write, cref, gone, old, made, readerVars>>

\* rwlock_wlock: the flag, then the wait for the readers.
WLock(from, to) ==
  /\ W(from, to) /\ write = 0 /\ write' = 1 /\ Touch("wlock")
  /\ UNCHANGED <<reference, copy, freed, read, cref, gone, old, made, grabs, sent, readerVars>>
UpdateLock == made < MaxCopy /\ WLock("idle", "update")
\* stm_newcopy and the swap.
Update ==
  /\ W("update", "updated") /\ read = {}
  /\ made' = made + 1 /\ cref' = [cref EXCEPT ![made + 1] = 1]
  /\ old' = copy /\ copy' = made + 1 /\ Touch("update")
  /\ UNCHANGED <<reference, freed, write, read, gone, grabs, sent, readerVars>>
UpdateUnlock ==
  /\ W("updated", "release_old") /\ write' = 0 /\ Touch("wunlock")
  /\ UNCHANGED <<reference, copy, freed, read, cref, gone, old, made, grabs, sent, readerVars>>
UpdateRelease ==
  /\ W("release_old", "idle") /\ ReleaseCopy(old) /\ old' = 0
  /\ UNCHANGED <<objVars, made, grabs, sent, readerVars, late>>

DeleteLock == WLock("idle", "delete")
DeleteCopy ==
  /\ W("delete", "deleted") /\ read = {} /\ ReleaseCopy(copy) /\ copy' = 0 /\ Touch("release")
  /\ UNCHANGED <<reference, freed, write, read, old, made, grabs, sent, readerVars>>
DeleteRef ==
  /\ W("deleted", "none") /\ reference' = reference - 1 /\ Touch("release")
  /\ IF reference > 1 THEN write' = 0 /\ UNCHANGED freed
                      ELSE freed' = TRUE /\ UNCHANGED write
  /\ UNCHANGED <<copy, read, cref, gone, old, made, grabs, sent, readerVars>>

-----------------------------------------------------------------------------
(* A reader: lnewreader, lread, ldeletereader.                             *)
R(r, from, to) == rpc[r] = from /\ rpc' = [rpc EXCEPT ![r] = to]

Open(r) ==
  /\ R(r, "none", "idle") /\ sent > 0 /\ sent' = sent - 1
  /\ UNCHANGED <<objVars, cref, gone, writerVars, tmp, last, late>>

RLock(r, from, to) ==
  /\ R(r, from, to) /\ write = 0 /\ read' = read \cup {r} /\ Touch("rlock")
  /\ UNCHANGED <<reference, copy, freed, write, cref, gone, writerVars, sent, tmp, last>>
RUnlock(r, from, to, what) ==
  /\ R(r, from, to) /\ read' = read \ {r} /\ Touch(what)
  /\ UNCHANGED <<reference, copy, freed, write, cref, gone, writerVars, sent, tmp, last>>

ReadLock(r) == RLock(r, "idle", "load")
\* stm_copy: obj->copy is read, and then its count raised.
Load(r) ==
  /\ R(r, "load", "hold") /\ tmp' = [tmp EXCEPT ![r] = copy] /\ Touch("load")
  /\ UNCHANGED <<objVars, cref, gone, writerVars, sent, last>>
Hold(r) ==
  /\ R(r, "hold", "unlock")
  /\ cref' = IF tmp[r] = 0 THEN cref ELSE [cref EXCEPT ![tmp[r]] = @ + 1]
  /\ UNCHANGED <<objVars, gone, writerVars, sent, tmp, last, late>>
ReadUnlock(r) == RUnlock(r, "unlock", "compare", "runlock")
\* The same copy again: its new reference goes.  Another one: the last one's goes.
BadCompare(r) ==
  /\ R(r, "compare", "idle")
  /\ IF tmp[r] = last[r] THEN UNCHANGED <<cref, gone>> ELSE ReleaseCopy(last[r])
  /\ last' = [last EXCEPT ![r] = tmp[r]] /\ tmp' = [tmp EXCEPT ![r] = 0]
  /\ UNCHANGED <<objVars, writerVars, sent, late>>
Compare(r) ==
  /\ R(r, "compare", "idle")
  /\ ReleaseCopy(IF tmp[r] = last[r] THEN tmp[r] ELSE last[r])
  /\ last' = [last EXCEPT ![r] = tmp[r]] /\ tmp' = [tmp EXCEPT ![r] = 0]
  /\ UNCHANGED <<objVars, writerVars, sent, late>>

\* stm_releasereader: the lock, the count, and the unlock unless it was the last.
CloseLock(r) == RLock(r, "idle", "drop")
Drop(r) ==
  /\ R(r, "drop", IF reference = 1 THEN "close" ELSE "drop_unlock")
  /\ reference' = reference - 1 /\ freed' = (freed \/ reference = 1)
  /\ Touch("drop")
  /\ UNCHANGED <<copy, write, read, cref, gone, writerVars, sent, tmp, last>>
DropUnlock(r) == RUnlock(r, "drop_unlock", "close", "drop_unlock")
Close(r) ==
  /\ R(r, "close", "none") /\ ReleaseCopy(last[r]) /\ last' = [last EXCEPT ![r] = 0]
  /\ UNCHANGED <<objVars, writerVars, sent, tmp, late>>

Writer == \/ GrabLock \/ Grab \/ UpdateLock \/ Update \/ UpdateUnlock \/ UpdateRelease
          \/ DeleteLock \/ DeleteCopy \/ DeleteRef
Reader(r) == \/ Open(r) \/ ReadLock(r) \/ Load(r) \/ Hold(r) \/ ReadUnlock(r) \/ Compare(r)
             \/ CloseLock(r) \/ Drop(r) \/ DropUnlock(r) \/ Close(r)
Next == Writer \/ \E r \in Readers : Reader(r)
Spec == Init /\ [][Next]_vars

-----------------------------------------------------------------------------
Pcs == {"none", "idle", "load", "hold", "unlock", "compare", "drop", "drop_unlock", "close"}
TypeOK ==
  /\ reference \in 0..(1 + MaxGrab) /\ copy \in 0..MaxCopy /\ freed \in BOOLEAN
  /\ write \in {0, 1} /\ read \subseteq Readers \cup {0}
  /\ cref \in [1..MaxCopy -> 0..(2 + 2 * Cardinality(Readers))] /\ gone \subseteq 1..MaxCopy
  /\ old \in 0..MaxCopy /\ made \in 1..MaxCopy /\ grabs \in 0..MaxGrab /\ sent \in 0..MaxGrab
  /\ rpc \in [Readers -> Pcs] /\ tmp \in [Readers -> 0..MaxCopy] /\ last \in [Readers -> 0..MaxCopy]

\* Who holds copy c: the object, the writer that has just replaced it, readers
\* that keep it, readers that have just got it.
Is(x, c) == IF x = c THEN 1 ELSE 0
Keeping(c) == {r \in Readers : last[r] = c}
Getting(c) == {r \in Readers : tmp[r] = c /\ rpc[r] \in {"unlock", "compare"}}
Holders(c) ==
  Is(copy, c) + Is(old, c) + Cardinality(Keeping(c)) + Cardinality(Getting(c))
\* A copy's count is the number of its holders; it is freed when there is none,
\* and never while a reader's callback may look at it.
CopiesCounted ==
  \A c \in 1..made :
    /\ cref[c] = Holders(c)
    /\ c \in gone <=> cref[c] = 0

\* The object's count: the writer, references on their way, and readers.
Opened == {r \in Readers : rpc[r] \notin {"none", "drop_unlock", "close"}}
ObjectCounted ==
  /\ reference = (IF wpc = "none" THEN 0 ELSE 1) + sent + Cardinality(Opened)
  /\ freed <=> reference = 0

\* The asserts of stm_grab, stm_copy, stm_release and stm_releasereader.
AssertsHold ==
  /\ wpc = "grab" => reference > 0
  /\ \A r \in Readers : rpc[r] = "hold" /\ tmp[r] # 0 => cref[tmp[r]] > 0
  /\ wpc = "delete" => copy # 0
  /\ wpc = "none" /\ reference = 0 => copy = 0

\* Nobody looks at the object after it was freed, but for the unlock of a reader
\* that was not the last (LastReader).
UsedWhileLive == late \subseteq {"drop_unlock"}

StmRight == TypeOK /\ CopiesCounted /\ ObjectCounted /\ AssertsHold /\ UsedWhileLive

\* "last reader, no writer. so no need to unlock": stm_releasereader frees the
\* object although another reader may still be inside the lock.
LastReader == "drop_unlock" \notin late
-----------------------------------------------------------------------------
(* The inductive invariant behind StmRight.                                *)

\* Who is inside the lock.  A reader that freed the object stays there for ever.
Reading == {"load", "hold", "unlock", "drop", "drop_unlock"}
LockRight ==
  /\ wpc \in {"idle", "grab", "update", "updated", "release_old", "delete", "deleted", "none"}
  /\ wpc \in {"update", "updated", "delete", "deleted"} => write = 1
  /\ 0 \in read <=> wpc = "grab"
  /\ \A r \in Readers : /\ rpc[r] \in Reading => r \in read
                        /\ r \in read => rpc[r] \in Reading \/ freed
  /\ wpc \in {"updated", "deleted"} => read = {}

\* Which copies the object, the writer and the readers refer to.
CopiesKnown ==
  /\ copy = 0 <=> wpc \in {"deleted", "none"}
  /\ old # 0 => wpc \in {"updated", "release_old"}
  /\ copy <= made /\ old <= made
  /\ \A r \in Readers : /\ tmp[r] <= made /\ last[r] <= made
                        /\ rpc[r] = "hold" => tmp[r] = copy
                        /\ tmp[r] # 0 => rpc[r] \in {"hold", "unlock", "compare"}
                        /\ last[r] # 0 => rpc[r] # "none"
  /\ gone \subseteq 1..made /\ (wpc = "update" => made < MaxCopy)

\* No more references than were handed out.
GrabsCounted ==
  sent + Cardinality(Opened) <= grabs /\ (wpc = "grab" => grabs < MaxGrab)

IInv == StmRight /\ LockRight /\ CopiesKnown /\ GrabsCounted

=============================================================================
