---------------------------- MODULE HandleStorage ----------------------------
(***************************************************************************)
(* The handle storage of a node (skynet_handle.c): the table that maps a  *)
(* handle to its context, its growth, the names, and skynet_handle_       *)
(* retireall.  Every routine runs under H->lock and is one step, except   *)
(* that                                                                    *)
(*   - skynet_context_new stores the handle into ctx->handle only after   *)
(*     skynet_handle_register has returned (skynet_server.c): in between  *)
(*     the table holds a context whose handle reads 0;                    *)
(*   - skynet_handle_retireall takes the lock anew for every slot.        *)
(* Reference counts are the subject of module SkynetServer; here a        *)
(* context is a number, counted in order of creation.                     *)
(***************************************************************************)
EXTENDS Integers, Sequences, FiniteSets, SequencesExt

CONSTANTS
  Creators,    \* threads that may be inside skynet_context_new
  Users,       \* threads that retire, name and abort
  HandleMod,   \* HANDLE_MASK + 1
  InitSize,    \* DEFAULT_SLOT_SIZE
  Names,       \* service names: numbers, ordered as strcmp orders them
  MaxCtx,      \* bound: contexts ever created
  MaxOps       \* bound: namehandle and retireall calls

Callers == Creators \cup Users
Ctxs    == 1..MaxCtx
NoCtx   == 0
Handles == 0..(HandleMod - 1)

VARIABLES
  slot,          \* [0..slot_size-1 -> Ctxs \cup {NoCtx}]
  handle_index,
  name,          \* sequence of [name, handle], as the array H->name
  handle,        \* ctx->handle, 0 until it is assigned
  st,            \* of a context: "none", "registered" (in the window), "live", "retired"
  created, ops,
  abort,         \* which assert has ended the process: "no", "full", "rehash"
  laps,          \* how often handle_index has gone round (history)
  pc,            \* "idle", "assign", "scan" or "retire"
  pend,          \* register: the context and the handle returned
  i, n,          \* retireall: the loop index and the count
  todo           \* retireall: who was there when the pass began (history)

tabVars == <<slot, handle_index, handle, st, created, abort, laps>>
vars == <<tabVars, name, ops, pc, pend, i, n, todo>>

slot_size == Cardinality(DOMAIN slot)

\* hash = handle & (slot_size - 1), for a table of the given size.
Hash(h, size) == h % size

-----------------------------------------------------------------------------
(* skynet_handle_register.                                                 *)

(* An operator named Bad... is a plausible error in the one after it.      *)

\* The handle tried in iteration k of the inner loop.
Candidate(k)    == (k + handle_index) % HandleMod

\* The iterations of the inner loop that would find a free slot in table s.
FreeAt(s) == {k \in DOMAIN s : s[Hash(Candidate(k), Cardinality(DOMAIN s))] = NoCtx}

\* The rehash into a table twice as large: several contexts may claim a slot.
BadClaims(hash) == {c \in Ctxs : /\ \E k \in DOMAIN slot : slot[k] = c
                                 /\ Hash(handle[c], slot_size) = hash}
Claims(hash) == {c \in Ctxs : /\ \E k \in DOMAIN slot : slot[k] = c
                              /\ Hash(handle[c], 2 * slot_size) = hash}
Grown == [k \in 0..(2 * slot_size - 1) |->
            IF Claims(k) = {} THEN NoCtx ELSE CHOOSE c \in Claims(k) : TRUE]

\* s->handle_index = handle + 1.
NextIndex(h)    == h + 1

\* slot[hash] = ctx in table s, with the first free handle.
PlaceIn(t, s) ==
  LET k == CHOOSE k \in FreeAt(s) : \A j \in FreeAt(s) : k <= j
      h == Candidate(k)
      c == created + 1
  IN  /\ slot' = [s EXCEPT ![Hash(h, Cardinality(DOMAIN s))] = c]
      /\ handle_index' = NextIndex(h)
      /\ laps' = laps + (k + handle_index) \div HandleMod
      /\ created' = c
      /\ st' = [st EXCEPT ![c] = "registered"]
      /\ pend' = [pend EXCEPT ![t] = <<c, h>>]
      /\ pc' = [pc EXCEPT ![t] = "assign"]
      /\ UNCHANGED <<handle, abort>>

\* The table is full: assert((s->slot_size*2 - 1) <= HANDLE_MASK) and
\* assert(new_slot[hash] == NULL) end the process when they do not hold.
Crash(why) == /\ abort' = why
              /\ UNCHANGED <<slot, handle_index, laps, created, st, pend, pc, handle>>

BeforeRegister(t) == /\ pc[t] = "idle" /\ t \in Creators
                     /\ created < MaxCtx /\ abort = "no"
                     /\ UNCHANGED <<name, ops, i, n, todo>>

Register(t) ==
  /\ BeforeRegister(t)
  /\ FreeAt(slot) # {}
  /\ PlaceIn(t, slot)

RegisterGrow(t) ==
  /\ BeforeRegister(t)
  /\ FreeAt(slot) = {} /\ 2 * slot_size <= HandleMod
  /\ IF \E k \in 0..(2 * slot_size - 1) : Cardinality(Claims(k)) > 1
     THEN Crash("rehash")
     ELSE PlaceIn(t, Grown)

RegisterFull(t) ==
  /\ BeforeRegister(t)
  /\ FreeAt(slot) = {} /\ 2 * slot_size > HandleMod
  /\ Crash("full")

\* ctx->handle = skynet_handle_register(ctx), in skynet_context_new.
Assign(t) ==
  /\ pc[t] = "assign" /\ abort = "no"
  /\ handle' = [handle EXCEPT ![pend[t][1]] = pend[t][2]]
  /\ st' = [st EXCEPT ![pend[t][1]] = "live"]
  /\ pc' = [pc EXCEPT ![t] = "idle"]
  /\ pend' = [pend EXCEPT ![t] = <<NoCtx, 0>>]
  /\ UNCHANGED <<slot, handle_index, created, abort, laps, name, ops, i, n, todo>>

-----------------------------------------------------------------------------
(* skynet_handle_retire and skynet_handle_grab.                            *)

\* The context grab and retire find for handle h.
Lookup(h) == LET c == slot[Hash(h, slot_size)]
             IN  IF c # NoCtx /\ handle[c] = h THEN c ELSE NoCtx

\* The names of the retired handle go too; the others keep their order.
KeptNames(h) ==
  LET kept[k \in 0..Len(name)] ==
        IF k = 0 THEN << >>
        ELSE IF name[k].handle = h THEN kept[k - 1] ELSE Append(kept[k - 1], name[k])
  IN  kept[Len(name)]

\* The whole critical section: found or not.
DoRetire(h) ==
  LET c == Lookup(h)
  IN  IF c # NoCtx
      THEN /\ slot' = [slot EXCEPT ![Hash(h, slot_size)] = NoCtx]
           /\ st' = [st EXCEPT ![c] = "retired"]
           /\ name' = KeptNames(h)
      ELSE UNCHANGED <<slot, st, name>>

\* KILL and EXIT; the handle is one that was given out.  (A call that finds
\* nothing changes nothing.)
Retire(t, c) ==
  /\ pc[t] = "idle" /\ t \in Users /\ abort = "no"
  /\ st[c] \in {"live", "retired"}
  /\ Lookup(handle[c]) # NoCtx
  /\ DoRetire(handle[c])
  /\ UNCHANGED <<handle_index, handle, created, abort, laps, ops, pc, pend, i, n, todo>>

-----------------------------------------------------------------------------
(* skynet_handle_retireall.                                                *)

Present == {c \in Ctxs : handle[c] # 0 /\ \E k \in DOMAIN slot : slot[k] = c}

\* The condition of the inner loop reads slot_size again in every iteration.
BadMoreSlots(t) == i[t] < InitSize
MoreSlots(t)    == i[t] < slot_size

NewPass(t) == /\ i' = [i EXCEPT ![t] = 0]
              /\ n' = [n EXCEPT ![t] = 0]
              /\ todo' = [todo EXCEPT ![t] = Present]

RetireAll(t) ==
  /\ pc[t] = "idle" /\ t \in Users /\ abort = "no"
  /\ ops < MaxOps /\ ops' = ops + 1
  /\ pc' = [pc EXCEPT ![t] = "scan"]
  /\ NewPass(t)
  /\ UNCHANGED <<tabVars, name, pend>>

\* Under the read lock: the handle of the context in slot i, if any.
ScanSlot(t) ==
  /\ pc[t] = "scan" /\ abort = "no" /\ MoreSlots(t)
  /\ LET c == slot[i[t]]
         h == IF c = NoCtx THEN 0 ELSE handle[c]
     IN  IF h # 0
         THEN /\ pc' = [pc EXCEPT ![t] = "retire"]
              /\ pend' = [pend EXCEPT ![t] = <<NoCtx, h>>]
              /\ UNCHANGED i
         ELSE i' = [i EXCEPT ![t] = @ + 1] /\ UNCHANGED <<pc, pend>>
  /\ UNCHANGED <<tabVars, name, ops, n, todo>>

\* skynet_handle_retire(handle), after the read lock was given up.
ScanRetire(t) ==
  /\ pc[t] = "retire" /\ abort = "no"
  /\ DoRetire(pend[t][2])
  /\ n' = [n EXCEPT ![t] = IF Lookup(pend[t][2]) # NoCtx THEN @ + 1 ELSE @]
  /\ i' = [i EXCEPT ![t] = @ + 1]
  /\ pc' = [pc EXCEPT ![t] = "scan"]
  /\ pend' = [pend EXCEPT ![t] = <<NoCtx, 0>>]
  /\ UNCHANGED <<handle_index, handle, created, abort, laps, ops, todo>>

ScanAgain(t) ==
  /\ pc[t] = "scan" /\ abort = "no" /\ ~MoreSlots(t) /\ n[t] # 0
  /\ NewPass(t)
  /\ UNCHANGED <<tabVars, name, ops, pc, pend>>

ScanReturn(t) ==
  /\ pc[t] = "scan" /\ abort = "no" /\ ~MoreSlots(t) /\ n[t] = 0
  /\ pc' = [pc EXCEPT ![t] = "idle"]
  /\ todo' = [todo EXCEPT ![t] = {}]
  /\ UNCHANGED <<tabVars, name, ops, pend, i, n>>

-----------------------------------------------------------------------------
(* Names.                                                                  *)

\* The binary search of skynet_handle_findname and _insert_name over the first
\* cnt entries (0-based positions, as in the code): where it stops, and
\* whether it met the name.
Search(nm) ==
  LET f[be \in (0..Len(name)) \X (-1..(Len(name) - 1))] ==
        LET mid == (be[1] + be[2]) \div 2
            c   == name[mid + 1].name
        IN  IF be[1] > be[2] THEN [found |-> FALSE, at |-> be[1]]
            ELSE IF c = nm THEN [found |-> TRUE, at |-> mid]
            ELSE IF c < nm THEN f[<<mid + 1, be[2]>>]
            ELSE f[<<be[1], mid - 1>>]
  IN  f[<<0, Len(name) - 1>>]

skynet_handle_findname(nm) ==
  LET s == Search(nm) IN IF s.found THEN name[s.at + 1].handle ELSE 0

\* _insert_name_before(s, name, handle, before).
InsertBefore(nm, h, before)    == InsertAt(name, before + 1, [name |-> nm, handle |-> h])

\* REG and NAME: any handle that was given out, retired or not; a name that
\* is taken is refused.
NameHandle(t, nm, c) ==
  /\ pc[t] = "idle" /\ t \in Users /\ abort = "no"
  /\ ops < MaxOps /\ ops' = ops + 1
  /\ st[c] \in {"live", "retired"} /\ handle[c] # 0
  /\ LET s == Search(nm)
     IN  name' = IF s.found THEN name ELSE InsertBefore(nm, handle[c], s.at)
  /\ UNCHANGED <<tabVars, pc, pend, i, n, todo>>

-----------------------------------------------------------------------------
Init ==
  /\ slot = [k \in 0..(InitSize - 1) |-> NoCtx]
  /\ handle_index = 1
  /\ name = << >>
  /\ handle = [c \in Ctxs |-> 0]
  /\ st = [c \in Ctxs |-> "none"]
  /\ created = 0 /\ ops = 0 /\ abort = "no" /\ laps = 0
  /\ pc = [t \in Callers |-> "idle"]
  /\ pend = [t \in Callers |-> <<NoCtx, 0>>]
  /\ i = [t \in Callers |-> 0]
  /\ n = [t \in Callers |-> 0]
  /\ todo = [t \in Callers |-> {}]

Next ==
  \E t \in Callers :
    \/ Register(t) \/ RegisterGrow(t) \/ RegisterFull(t) \/ Assign(t)
    \/ \E c \in Ctxs : Retire(t, c)
    \/ RetireAll(t) \/ ScanSlot(t) \/ ScanRetire(t) \/ ScanAgain(t) \/ ScanReturn(t)
    \/ \E nm \in Names, c \in Ctxs : NameHandle(t, nm, c)

Spec == Init /\ [][Next]_vars

-----------------------------------------------------------------------------
(* Properties.                                                             *)

Entry == [name : Names, handle : Handles]
TypeOK ==
  /\ \E size \in 1..HandleMod :
        /\ InitSize <= size /\ HandleMod % size = 0
        /\ slot \in [0..(size - 1) -> Ctxs \cup {NoCtx}]
  /\ handle_index \in 1..HandleMod
  /\ name \in Seq(Entry)
  /\ handle \in [Ctxs -> Handles]
  /\ st \in [Ctxs -> {"none", "registered", "live", "retired"}]
  /\ created \in 0..MaxCtx /\ ops \in 0..MaxOps /\ laps \in Nat
  /\ abort \in {"no", "full", "rehash"}
  /\ pc \in [Callers -> {"idle", "assign", "scan", "retire"}]
  /\ pend \in [Callers -> (Ctxs \cup {NoCtx}) \X Handles]
  /\ i \in [Callers -> Nat] /\ n \in [Callers -> Nat]
  /\ todo \in [Callers -> SUBSET Ctxs]

\* skynet_handle_grab and skynet_handle_retire find every live context under
\* the handle skynet_context_new has returned for it, through any growth of
\* the table (skynet_handle.c, the rehash in register), until handle_index has
\* gone round.
LiveIsFound == \A c \in Ctxs : laps = 0 /\ st[c] = "live" => Lookup(handle[c]) = c

\* Until handle_index has gone round, a handle is never given out twice: a
\* handle kept by somebody after the service has gone reaches nobody.
NoReuseBeforeWrap ==
  laps = 0 =>
    \A c, e \in Ctxs : c # e /\ handle[c] # 0 /\ handle[e] # 0
                         => handle[c] # handle[e]

\* When skynet_handle_retireall returns, every service that was in the table
\* with its handle set when the last pass began has been retired, although
\* the table may grow and move contexts while it is scanned slot by slot.
AbortRetiresAll ==
  [][\A t \in Callers : ScanReturn(t) => todo[t] \cap Present' = {}]_vars

\* Binary search agrees with the set of names: skynet_handle_findname finds
\* what is there, and one handle per name.
FindNameCorrect ==
  \A nm \in Names :
    LET hs == {name[k].handle : k \in {j \in DOMAIN name : name[j].name = nm}}
    IN  /\ Cardinality(hs) <= 1
        /\ skynet_handle_findname(nm) \in (IF hs = {} THEN {0} ELSE hs)

\* All that is promised of the handles.
HandlesRight == TypeOK /\ LiveIsFound /\ NoReuseBeforeWrap /\ FindNameCorrect

-----------------------------------------------------------------------------
(* The inductive invariant behind HandlesRight, for one creator.  HandleMod *)
(* is a power of two, and so is InitSize, which divides it.                *)
HandleConstants ==
  /\ HandleMod \in Nat \ {0}
  /\ \A s \in 1..HandleMod : HandleMod % s = 0 /\ 2 * s <= HandleMod => HandleMod % (2 * s) = 0
  /\ InitSize \in 1..HandleMod /\ HandleMod % InitSize = 0
  /\ MaxCtx \in Nat /\ MaxOps \in Nat /\ Names \subseteq Int
OneCreator == \A t, u \in Creators : t = u

\* A context is in the slot of its handle, also before ctx->handle is assigned.
Assigning(t) == pc[t] = "assign"
InTable(c)   == \E k \in DOMAIN slot : slot[k] = c
PlacesRight ==
  /\ \A t \in Callers : Assigning(t) =>
       /\ t \in Creators /\ created > 0 /\ pend[t][1] = created
       /\ handle[created] = 0 /\ st[created] \in {"registered", "retired"}
       /\ \A k \in DOMAIN slot : slot[k] = created => k = Hash(pend[t][2], slot_size)
  /\ \A k \in DOMAIN slot : slot[k] # NoCtx =>
       /\ slot[k] <= created
       /\ \/ Hash(handle[slot[k]], slot_size) = k
          \/ slot[k] = created /\ \E t \in Creators : Assigning(t)
  /\ \A c \in Ctxs : c > created => handle[c] = 0 /\ st[c] = "none"

\* Until handle_index has gone round, handles grow, none is 0, and who has not been retired
\* is in the table.
FirstLap ==
  laps = 0 =>
    /\ NoReuseBeforeWrap
    /\ \A c \in Ctxs : /\ handle[c] < handle_index
                       /\ st[c] \in {"live", "retired"} => handle[c] # 0
                       /\ st[c] \in {"live", "registered"} => InTable(c)
    /\ \A t \in Callers : Assigning(t) =>
         /\ pend[t][2] < handle_index /\ st[created] = "registered"
         /\ \A c \in Ctxs : handle[c] < pend[t][2]

\* As long as a pass of skynet_handle_retireall has retired nothing, whom it has still to
\* meet is in a slot it has not passed; between the read lock and the retire, a context
\* of the pass that is in the slot is the one whose handle was read.
PassRight ==
  \A t \in Callers : pc[t] \in {"scan", "retire"} =>
    /\ \A c \in todo[t] : handle[c] # 0
    /\ n[t] = 0 => \A k \in DOMAIN slot : slot[k] \in todo[t] => k >= i[t]
    /\ pc[t] = "retire" =>
         /\ pend[t][2] # 0 /\ i[t] \in DOMAIN slot
         /\ slot[i[t]] \in todo[t] => handle[slot[i[t]]] = pend[t][2]

\* H->name is sorted, without duplicates.
NamesSorted == \A j, k \in DOMAIN name : j < k => name[j].name < name[k].name

IInv == /\ TypeOK /\ PlacesRight /\ FirstLap /\ PassRight /\ NamesSorted
        /\ abort # "rehash"

-----------------------------------------------------------------------------
(* What the code claims and does not keep.                                 *)

\* assert(new_slot[hash] == NULL) in skynet_handle_register never fails.
RehashAssert == abort # "rehash"

\* "reserve 0 for system" (skynet_handle_init): no service gets handle 0.
ZeroReserved == \A c \in Ctxs : st[c] = "live" => handle[c] # 0

=============================================================================
