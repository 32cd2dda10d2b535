-------------------------------- MODULE Rpc --------------------------------
(***************************************************************************)
(* What a MsgClient and a MsgServer promise a caller together, without     *)
(* bytes, ids, tables or timers: a call is served at most once and ends at *)
(* most once, and a result that is not a timeout is the one the server     *)
(* gave to this very call, as long as the connection is intact.            *)
(***************************************************************************)
CONSTANTS
  Calls,      \* the calls that may be made
  Results     \* what the server can say of a call

VARIABLES
  outcome,    \* of each call: "none" before it, "pending", "lost" (ended
              \* without a word to the caller), "TIMEOUT", or a result
  served,     \* "no", "silent" (handled, but no answer is on its way), or
              \* the result the server gave
  open,       \* the caller still wants its answers
  intact      \* no part of an answer has been lost on the way

vars == <<outcome, served, open, intact>>

Init ==
  /\ outcome = [c \in Calls |-> "none"]
  /\ served  = [c \in Calls |-> "no"]
  /\ open    = TRUE
  /\ intact  = TRUE

\* The call is made; it may be lost from the start, whether or not the server
\* will see it.
Call(c) ==
  /\ open /\ outcome[c] = "none"
  /\ \E o \in {"pending", "lost"} : outcome' = [outcome EXCEPT ![c] = o]
  /\ UNCHANGED <<served, open, intact>>

Serve(c) ==
  /\ outcome[c] # "none" /\ served[c] = "no"
  /\ \E r \in Results \cup {"silent"} : served' = [served EXCEPT ![c] = r]
  /\ UNCHANGED <<outcome, open, intact>>

\* The answer arrives: the caller is told, or cannot make sense of it.  What is
\* left of answers when parts are missing may be taken for the answer to any call.
Return(c) ==
  /\ open /\ outcome[c] = "pending"
  /\ \E o \in {"lost"} \cup Results :
       /\ intact => served[c] \in Results /\ o \in {served[c], "lost"}
       /\ outcome' = [outcome EXCEPT ![c] = o]
  /\ UNCHANGED <<served, open, intact>>

\* No answer arrives in time; the caller may be one that asked not to be told.
Timeout(c) ==
  /\ open /\ outcome[c] = "pending"
  /\ \E o \in {"TIMEOUT", "lost"} : outcome' = [outcome EXCEPT ![c] = o]
  /\ UNCHANGED <<served, open, intact>>

Damage ==
  /\ intact' = FALSE
  /\ UNCHANGED <<outcome, served, open>>

Leave ==
  /\ open
  /\ open' = FALSE
  /\ outcome' = [c \in Calls |-> IF outcome[c] = "pending" THEN "lost" ELSE outcome[c]]
  /\ UNCHANGED <<served, intact>>

Next ==
  \/ \E c \in Calls : Call(c) \/ Serve(c) \/ Return(c) \/ Timeout(c)
  \/ Leave \/ Damage

Spec == Init /\ [][Next]_vars

\* What a caller is told over an intact connection, if it is told anything but a
\* timeout, is what the server has said of this call.
ToldTrue ==
  intact => \A c \in Calls : outcome[c] \in Results => served[c] = outcome[c]

\* An end is an end, and what the server has said it does not take back.
Settled ==
  \A c \in Calls :
    /\ outcome[c] \notin {"none", "pending"} => outcome'[c] = outcome[c]
    /\ served[c] # "no" => served'[c] = served[c]

EndsForGood == [][Settled]_vars
=============================================================================
