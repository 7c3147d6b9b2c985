------------------------------ MODULE Transfer ------------------------------
(***************************************************************************)
(* What a resumable download promises, whatever goroutines, sidecar and    *)
(* flushes it is made of: success is only reported when the whole object   *)
(* is on stable storage, a call that ends in any other way keeps what it   *)
(* has, and a crash takes at most what was not yet made safe.              *)
(***************************************************************************)
EXTENDS Integers

CONSTANTS MaxVersion, Length

VARIABLES
  version,   \* the publication of the object the archive holds
  have,      \* chunks of it that are in the file
  safe,      \* chunks of it that would survive a crash
  running,   \* a call is in progress
  outcome    \* what the last call reported

vars == <<version, have, safe, running, outcome>>

Object == 0..(Length[version] - 1)

Init ==
  /\ version = 1
  /\ have = {} /\ safe = {}
  /\ running = FALSE
  /\ outcome = "none"

Begin ==
  /\ ~running
  /\ running' = TRUE
  /\ outcome' = "none"
  /\ UNCHANGED <<version, have, safe>>

Receive(c) ==
  /\ running
  /\ have' = have \cup {c}
  /\ UNCHANGED <<version, safe, running, outcome>>

Secure ==
  /\ running
  /\ safe' = have
  /\ UNCHANGED <<version, have, running, outcome>>

Succeed ==
  /\ running
  /\ Object \subseteq safe
  /\ running' = FALSE
  /\ outcome' = "ok"
  /\ UNCHANGED <<version, have, safe>>

GiveUp ==
  /\ running
  /\ running' = FALSE
  /\ outcome' \in {"none", "err", "canceled"}
  /\ UNCHANGED <<version, have, safe>>

Crash ==
  /\ safe \subseteq have'
  /\ have' \subseteq have
  /\ safe' = have'
  /\ running' = FALSE
  /\ outcome' = IF running THEN "none" ELSE outcome
  /\ UNCHANGED version

Republish ==
  /\ ~running
  /\ version < MaxVersion
  /\ version' = version + 1
  /\ have' = {} /\ safe' = {}
  /\ outcome' = "none"
  /\ UNCHANGED running

Next ==
  \/ Begin \/ Secure \/ Succeed \/ GiveUp \/ Crash \/ Republish
  \/ \E c \in Object : Receive(c)

Spec == Init /\ [][Next]_vars

=============================================================================
