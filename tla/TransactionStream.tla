-------------------------- MODULE TransactionStream --------------------------
(***************************************************************************)
(* The subscription to the updates of the ledger                           *)
(* (backend/src/services/transaction-stream.ts) as index.ts starts and     *)
(* stops it, and the listeners of the SSE route of routes/portfolio.ts.    *)
(*                                                                         *)
(* Updates are numbered; update k has event k.  A connection delivers the  *)
(* updates after its beginExclusive in order, and may break or end at any  *)
(* point: what is left in the buffer is lost with it.                      *)
(***************************************************************************)
EXTENDS Integers, Sequences

CONSTANTS
  Clients,     \* browsers that may listen
  MaxUpdates, MaxBreaks  \* bounds

ConstantsAssumption == MaxUpdates \in Nat /\ MaxBreaks \in Nat

VARIABLES
  ledgerEnd,   \* number of updates there are
  isRunning,
  loop,        \* what start and streamLoop are doing
  offset,      \* the offset reconnecting starts from
  begun,       \* the offset the subscription started from
  connection,  \* the last update this connection has delivered
  emitted,     \* the events emitted so far
  listening,   \* per client: the first event emitted since it listens, or 0
  heard,       \* what each client received
  breaks

vars == <<ledgerEnd, isRunning, loop, offset, begun, connection, emitted, listening,
          heard, breaks>>

Init ==
  /\ ledgerEnd = 0 /\ isRunning = FALSE /\ loop = "new"
  /\ offset = 0 /\ begun = 0 /\ connection = 0
  /\ emitted = <<>>
  /\ listening = [c \in Clients |-> 0]
  /\ heard = [c \in Clients |-> <<>>]
  /\ breaks = 0

streamVars == <<isRunning, loop, offset, begun, connection, emitted>>
clientVars == <<listening, heard>>

Commit ==
  /\ ledgerEnd < MaxUpdates
  /\ ledgerEnd' = ledgerEnd + 1
  /\ UNCHANGED <<streamVars, clientVars, breaks>>

(* start, once per process.                                                *)
Start ==
  /\ loop = "new"
  /\ isRunning' = TRUE
  /\ loop' = "end"
  /\ UNCHANGED <<ledgerEnd, offset, begun, connection, emitted, clientVars, breaks>>

(* If the end of the ledger cannot be read, start gives up for good.       *)
LedgerEnd ==
  /\ loop = "end"
  /\ \/ /\ offset' = ledgerEnd /\ begun' = ledgerEnd
        /\ loop' = "connect"
        /\ UNCHANGED isRunning
     \/ isRunning' = FALSE /\ loop' = "over" /\ UNCHANGED <<offset, begun>>
  /\ UNCHANGED <<ledgerEnd, connection, emitted, clientVars, breaks>>

Connect_FromEnd ==
  /\ loop = "connect" /\ isRunning
  /\ connection' = ledgerEnd
  /\ loop' = "read"
  /\ UNCHANGED <<ledgerEnd, isRunning, offset, begun, emitted, clientVars, breaks>>

Connect ==
  /\ loop = "connect" /\ isRunning
  /\ connection' = offset
  /\ loop' = "read"
  /\ UNCHANGED <<ledgerEnd, isRunning, offset, begun, emitted, clientVars, breaks>>

Emit(event) ==
  /\ emitted' = Append(emitted, event)
  /\ heard' = [c \in Clients |->
       IF listening[c] = 0 THEN heard[c] ELSE Append(heard[c], event)]

(* handleEvent: the offset moves on, and the event is emitted.             *)
Read ==
  /\ loop = "read" /\ isRunning
  /\ connection < ledgerEnd
  /\ connection' = connection + 1
  /\ offset' = connection'
  /\ Emit(connection')
  /\ UNCHANGED <<ledgerEnd, isRunning, loop, begun, listening, breaks>>

(* The request or the connection fails, or the server closes it, perhaps   *)
(* after part of a line: the loop starts again.                            *)
Break ==
  /\ loop \in {"connect", "read"} /\ isRunning
  /\ breaks < MaxBreaks
  /\ breaks' = breaks + 1
  /\ loop' = "connect"
  /\ UNCHANGED <<ledgerEnd, isRunning, offset, begun, connection, emitted, clientVars>>

(* stop, at shutdown; the loop ends where it is.                           *)
Stop ==
  /\ isRunning
  /\ isRunning' = FALSE
  /\ UNCHANGED <<ledgerEnd, loop, offset, begun, connection, emitted, clientVars, breaks>>

EndLoop ==
  /\ loop \in {"connect", "read"} /\ ~ isRunning
  /\ loop' = "over"
  /\ UNCHANGED <<ledgerEnd, isRunning, offset, begun, connection, emitted, clientVars,
                 breaks>>

(* A client opens the event stream, and closes it.                         *)
Listen(c) ==
  /\ listening[c] = 0 /\ heard[c] = <<>>
  /\ listening' = [listening EXCEPT ![c] = Len(emitted) + 1]
  /\ UNCHANGED <<ledgerEnd, streamVars, heard, breaks>>

Leave(c) ==
  /\ listening[c] # 0
  /\ listening' = [listening EXCEPT ![c] = 0]
  /\ heard' = [heard EXCEPT ![c] = <<>>]
  /\ UNCHANGED <<ledgerEnd, streamVars, breaks>>

Next ==
  \/ Commit \/ Start \/ LedgerEnd \/ Connect \/ Read \/ Break \/ Stop \/ EndLoop
  \/ \E c \in Clients : Listen(c) \/ Leave(c)

Spec == Init /\ [][Next]_vars

(* The loop goes on by itself, and the server sends what there is.         *)
Fairness == WF_vars(LedgerEnd) /\ WF_vars(Connect) /\ WF_vars(Read)

FairSpec == Spec /\ Fairness

---------------------------------------------------------------------------
(* Properties.                                                             *)

TypeOK ==
  /\ loop \in {"new", "end", "connect", "read", "over"}
  /\ isRunning \in BOOLEAN
  /\ {ledgerEnd, offset, begun, connection} \subseteq 0..MaxUpdates
  /\ emitted \in Seq(1..MaxUpdates)
  /\ listening \in [Clients -> 0..(MaxUpdates + 1)]

(* However often the connection breaks, every update since the start is    *)
(* emitted once, in order, up to the offset; and a client hears all that   *)
(* is emitted while it listens.                                            *)
EventsAreExact ==
  /\ emitted = [k \in 1..(offset - begun) |-> begun + k]
  /\ \A c \in Clients : listening[c] # 0 =>
       heard[c] = SubSeq(emitted, listening[c], Len(emitted))

(* A stream that has started catches up with the ledger, unless it is      *)
(* stopped.                                                                *)
UpdatesArrive == loop = "connect" ~> offset = ledgerEnd \/ ~ isRunning
===========================================================================
