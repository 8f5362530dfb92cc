------------------------------ MODULE Monitor ------------------------------
(***************************************************************************)
(* The endless-loop monitor: skynet_monitor.c, the calls of the workers    *)
(* around a callback, thread_monitor (skynet_start.c), and                 *)
(* skynet_context_endless.  Nothing here is locked: every load and store   *)
(* of struct skynet_monitor that another thread can see is a step.         *)
(* sm->source is only printed and is left out.                             *)
(***************************************************************************)
EXTENDS Integers, FiniteSets

CONSTANTS
  Workers,     \* the worker threads, each with a struct skynet_monitor
  Services,    \* handles of services
  VersionMod   \* the width of sm->version, 2^32 in the code

None == 0      \* destination 0: no message is being dispatched

VARIABLES
  version, checkVersion, destination,  \* struct skynet_monitor of each worker
  wpc, work,   \* worker: where it is in the dispatch loop, and with which service
  mpc, mi,     \* monitor thread: where it is in skynet_monitor_check, and of whom
  endless,     \* ctx->endless
  registered,  \* services that skynet_handle_grab finds
  whole,       \* history: checks that began and ended within a worker's callback
  inCheck      \* history: services the worker mi had in hand since its check began

vars == <<version, checkVersion, destination, wpc, work, mpc, mi, endless,
          registered, whole, inCheck>>

monVars == <<checkVersion, mpc, mi, endless>>

Init ==
  /\ version = [w \in Workers |-> 0] /\ checkVersion = [w \in Workers |-> 0]
  /\ destination = [w \in Workers |-> None]
  /\ wpc = [w \in Workers |-> "idle"] /\ work = [w \in Workers |-> None]
  /\ mpc = "sleep" /\ mi \in Workers
  /\ endless = [d \in Services |-> FALSE] /\ registered = Services
  /\ whole = [w \in Workers |-> 0] /\ inCheck = {}

-----------------------------------------------------------------------------
(* A worker: skynet_monitor_trigger(sm, source, handle), the callback,     *)
(* skynet_monitor_trigger(sm, 0, 0).                                       *)

\* A message of a service that no other worker has in hand.
Take(w, d) ==
  /\ wpc[w] = "idle" /\ d \in registered /\ \A v \in Workers : work[v] # d
  /\ wpc' = [wpc EXCEPT ![w] = "dst"] /\ work' = [work EXCEPT ![w] = d]
  /\ inCheck' = IF mpc # "sleep" /\ mi = w THEN inCheck \cup {d} ELSE inCheck
  /\ UNCHANGED <<version, destination, registered, whole>> /\ UNCHANGED monVars

StoreDestination(w) ==
  /\ wpc[w] \in {"dst", "clrdst"}
  /\ destination' = [destination EXCEPT ![w] = IF wpc[w] = "dst" THEN work[w] ELSE None]
  /\ wpc' = [wpc EXCEPT ![w] = IF @ = "dst" THEN "ver" ELSE "clrver"]
  /\ UNCHANGED <<version, work, registered, whole, inCheck>> /\ UNCHANGED monVars

Bump(v)    == (v + 1) % VersionMod

IncVersion(w) ==
  /\ wpc[w] \in {"ver", "clrver"}
  /\ version' = [version EXCEPT ![w] = Bump(@)]
  /\ wpc' = [wpc EXCEPT ![w] = IF @ = "ver" THEN "run" ELSE "idle"]
  /\ work' = [work EXCEPT ![w] = IF wpc[w] = "ver" THEN @ ELSE None]
  \* a check that has already begun does not count as a whole one
  /\ whole' = [whole EXCEPT ![w] = IF wpc[w] = "ver" /\ mpc # "sleep" /\ mi = w THEN -1 ELSE 0]
  /\ UNCHANGED <<destination, registered, inCheck>> /\ UNCHANGED monVars

\* The callback returns.
Return(w) ==
  /\ wpc[w] = "run"
  /\ wpc' = [wpc EXCEPT ![w] = "clrdst"] /\ whole' = [whole EXCEPT ![w] = 0]
  /\ UNCHANGED <<version, destination, work, registered, inCheck>>
  /\ UNCHANGED monVars

\* cmd_endless, by the running service: reads the flag and clears it.
StatEndless(w) ==
  /\ wpc[w] = "run" /\ endless[work[w]]
  /\ endless' = [endless EXCEPT ![work[w]] = FALSE]
  /\ whole' = [whole EXCEPT ![w] = IF mpc # "sleep" /\ mi = w THEN -1 ELSE 0]
  /\ UNCHANGED <<version, checkVersion, destination, wpc, work, mpc, mi, registered, inCheck>>

\* The service is retired, by itself or by another.
Retire(d) ==
  /\ d \in registered /\ registered' = registered \ {d}
  /\ UNCHANGED <<version, checkVersion, destination, wpc, work, mpc, mi, endless, whole, inCheck>>

-----------------------------------------------------------------------------
(* The monitor thread.                                                     *)

\* skynet_monitor_check(m->m[w]): the order of workers and the sleeps between
\* rounds are left open.
CheckBegin(w) ==
  /\ mpc = "sleep" /\ mpc' = "version" /\ mi' = w
  /\ inCheck' = {work[w]}
  /\ UNCHANGED <<version, checkVersion, destination, wpc, work, endless, registered, whole>>

CheckEnd == /\ mpc' = "sleep"
            /\ inCheck' = {}
            /\ whole' = [whole EXCEPT ![mi] = IF wpc[mi] = "run" /\ @ < 2 THEN @ + 1 ELSE @]

\* sm->version == sm->check_version
BadCheckVersion ==
  /\ mpc = "version"
  /\ mpc' = IF version[mi] = Bump(checkVersion[mi]) THEN "test" ELSE "copy"
  /\ UNCHANGED <<version, checkVersion, destination, wpc, work, mi, endless, registered, whole, inCheck>>
CheckVersion ==
  /\ mpc = "version"
  /\ mpc' = IF version[mi] = checkVersion[mi] THEN "test" ELSE "copy"
  /\ UNCHANGED <<version, checkVersion, destination, wpc, work, mi, endless, registered, whole, inCheck>>

\* if (sm->destination)
CheckDestination ==
  /\ mpc = "test"
  /\ IF destination[mi] = None THEN CheckEnd ELSE mpc' = "flag" /\ UNCHANGED <<whole, inCheck>>
  /\ UNCHANGED <<version, checkVersion, destination, wpc, work, mi, endless, registered>>

\* skynet_context_endless(sm->destination), a second load: nothing happens when
\* the handle is 0 by now, or the service is gone.
ContextEndless(d) ==
  endless' = IF d \in registered THEN [endless EXCEPT ![d] = TRUE] ELSE endless
CheckFlag ==
  /\ mpc = "flag"
  /\ ContextEndless(destination[mi]) /\ CheckEnd
  /\ UNCHANGED <<version, checkVersion, destination, wpc, work, mi, registered>>

\* sm->check_version = sm->version, a second load
BadCheckCopy ==
  /\ mpc = "copy" /\ CheckEnd
  /\ UNCHANGED <<version, checkVersion, destination, wpc, work, mi, endless, registered>>
CheckCopy ==
  /\ mpc = "copy" /\ CheckEnd
  /\ checkVersion' = [checkVersion EXCEPT ![mi] = version[mi]]
  /\ UNCHANGED <<version, destination, wpc, work, mi, endless, registered>>

CheckStep == CheckVersion \/ CheckDestination \/ CheckFlag \/ CheckCopy

Next ==
  \/ \E w \in Workers : \/ \E d \in Services : Take(w, d)
                        \/ StoreDestination(w) \/ IncVersion(w) \/ Return(w)
                        \/ StatEndless(w) \/ CheckBegin(w)
  \/ \E d \in Services : Retire(d)
  \/ CheckStep

\* The monitor thread never blocks, and its rounds visit every worker.
Fairness == WF_vars(CheckStep) /\ \A w \in Workers : SF_vars(CheckBegin(w))
Spec == Init /\ [][Next]_vars /\ Fairness

-----------------------------------------------------------------------------
\* What is assumed of the constants.
MonitorConstants == VersionMod \in Nat \ {0} /\ None \notin Services

TypeOK ==
  /\ version \in [Workers -> 0..(VersionMod - 1)]
  /\ checkVersion \in [Workers -> 0..(VersionMod - 1)]
  /\ destination \in [Workers -> Services \cup {None}]
  /\ wpc \in [Workers -> {"idle", "dst", "ver", "run", "clrdst", "clrver"}]
  /\ work \in [Workers -> Services \cup {None}]
  /\ mpc \in {"sleep", "version", "test", "flag", "copy"} /\ mi \in Workers
  /\ endless \in [Services -> BOOLEAN] /\ registered \subseteq Services
  /\ whole \in [Workers -> -1..2] /\ inCheck \subseteq Services \cup {None}

\* skynet_monitor_check misses no endless loop: a callback that outlasts two
\* whole checks of its worker has its service flagged, however the loads of the
\* first check fell among the stores of skynet_monitor_trigger.
StuckIsFlagged ==
  \A w \in Workers :
    wpc[w] = "run" /\ whole[w] = 2 /\ work[w] \in registered => endless[work[w]]

\* skynet_context_endless is called for a service that this worker had in hand
\* at some moment of the check, or for none.  (A stronger claim, that the
\* service was there since the check before, is false: destination is stored
\* before version is counted up.)
AccusedWasInHand ==
  mpc = "flag" => destination[mi] \in inCheck \cup {None}

MonitorRight == TypeOK /\ StuckIsFlagged /\ AccusedWasInHand

-----------------------------------------------------------------------------
(* The inductive invariant behind both.                                    *)

Checks(w) == mpc # "sleep" /\ mi = w

\* What a worker has in hand, and what it has stored of that.  A mailbox is with one worker.
HandsRight ==
  /\ \A w \in Workers :
       /\ work[w] # None <=> wpc[w] # "idle"
       /\ destination[w] = IF wpc[w] \in {"ver", "run", "clrdst"} THEN work[w] ELSE None
  /\ \A w, v \in Workers : work[w] # None /\ work[w] = work[v] => w = v
  /\ mpc = "sleep" \/ work[mi] \in inCheck \cup {None}

\* After a whole check the versions agree, and the next check goes on to the flag.
ChecksRight ==
  \A w \in Workers : wpc[w] = "run" =>
    /\ whole[w] >= 1 => checkVersion[w] = version[w]
    /\ Checks(w) /\ whole[w] >= 0 /\ mpc \in {"test", "flag"} => checkVersion[w] = version[w]
    /\ Checks(w) /\ whole[w] >= 1 => mpc # "copy"

IInv == TypeOK /\ HandsRight /\ ChecksRight /\ StuckIsFlagged

-----------------------------------------------------------------------------
\* A service that stays in its callback for ever is flagged, and flagged again
\* after it reads the flag away.
StuckIsReported ==
  \A w \in Workers, d \in Services :
    <>[](wpc[w] = "run" /\ work[w] = d /\ d \in registered) => []<>(endless[d])
=============================================================================
