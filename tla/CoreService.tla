---------------------------- MODULE CoreService ----------------------------
(***************************************************************************)
(* The Core service for its clients: pairing, authentication and           *)
(* revocation (core_auth.py), the events of a task (events.py), the        *)
(* requests and the event streams of the API (core_api.py).                *)
(*                                                                         *)
(* Each connection is a thread of the server with a client at its other    *)
(* end.  The client keeps what it received and connects again from there,  *)
(* as the header Last-Event-ID of the API lets it.  Revocation from the    *)
(* command line, the end of a code and the loss of a connection happen at  *)
(* any moment.                                                             *)
(***************************************************************************)
EXTENDS Naturals, FiniteSets, Sequences

CONSTANTS
    Code,           \* pairing codes
    Client,         \* clients
    Connection,     \* places for a request or a stream
    ClientAt,       \* the client at the other end of each
    Batch,          \* events a stream reads at once
    MaxEvents,      \* bound: events of the task
    NoCode

ASSUME NoCodeIsNone == NoCode \notin Code
ASSUME EachHasAClient == ClientAt \in [Connection -> Client]
ASSUME BatchIsNat == Batch \in Nat

VARIABLES
    pairing,        \* per code: none, open, used or expired
    client,         \* per client: state, the code it came from, whether it has its token
    events,         \* visibility of the events of the task, in the order of their ids
    connection,     \* per connection: the call, where its thread is, cursor and batch
    got,            \* per connection: ids of the events its client received
    overdue         \* history: what a connection read or did after its client was revoked

coreVars == <<pairing, client, events, connection, got, overdue>>

Calls == {"request", "administration", "stream", "snapshot"}
HungUp == [at |-> "off", call |-> "request", cursor |-> 0, batch |-> {}]

IsActive(c) == client[c].state = "active"
Onwards(k, at) == connection' = [connection EXCEPT ![k].at = at]
HangsUp(k) == connection' = [connection EXCEPT ![k] = HungUp]
Overdue(k) == IF IsActive(ClientAt[k]) THEN overdue ELSE [overdue EXCEPT ![k] = @ + 1]
LastOf(ids) == IF ids = <<>> THEN 0 ELSE ids[Len(ids)]

Visible(id) == events[id] # "internal"
Select(ids) == {id \in ids : Visible(id)}

-----------------------------------------------------------------------------
(* pairing and revocation *)

CreatePairing(g) ==
    /\ pairing[g] = "none"
    /\ pairing' = [pairing EXCEPT ![g] = "open"]
    /\ UNCHANGED <<client, events, connection, got, overdue>>

PairingExpires(g) ==
    /\ pairing[g] = "open"
    /\ pairing' = [pairing EXCEPT ![g] = "expired"]
    /\ UNCHANGED <<client, events, connection, got, overdue>>

\* mutant: a code that was exchanged is good until it expires
ExchangeableAgain(g) == pairing[g] \in {"open", "used"}

Exchangeable(g) == pairing[g] = "open"

\* the answer with the token may be lost; the client is there all the same
ExchangePairing(g, c) ==
    /\ Exchangeable(g) /\ client[c].state = "none"
    /\ pairing' = [pairing EXCEPT ![g] = "used"]
    /\ \E has \in BOOLEAN : client' = [client EXCEPT ![c] = [state |-> "active", code |-> g, has |-> has]]
    /\ UNCHANGED <<events, connection, got, overdue>>

Revoked(c) == client' = [client EXCEPT ![c].state = "revoked"]

\* `tars client revoke'
RevokeByHand(c) ==
    /\ IsActive(c) /\ Revoked(c)
    /\ UNCHANGED <<pairing, events, connection, got, overdue>>

-----------------------------------------------------------------------------
(* requests and streams *)

\* the first read of authenticate: an active row whose hash is that of the token
Authenticate(k, call) ==
    /\ connection[k].at = "off" /\ client[ClientAt[k]].has /\ IsActive(ClientAt[k])
    /\ connection' = [connection EXCEPT ![k] =
           [at |-> "matched", call |-> call, cursor |-> LastOf(got[k]), batch |-> {}]]
    /\ UNCHANGED <<pairing, client, events, got, overdue>>

\* its second transaction reads the row again, and require looks at what it read
Require(k) ==
    LET c == connection[k]
    IN  /\ c.at = "matched"
        /\ IF IsActive(ClientAt[k]) THEN Onwards(k, IF c.call \in {"stream", "snapshot"} THEN "checks" ELSE "acts")
                             ELSE HangsUp(k)
        /\ UNCHANGED <<pairing, client, events, got, overdue>>

\* a control or a message, which shows in the events
Act(k, v) ==
    /\ connection[k].at = "acts" /\ connection[k].call = "request"
    /\ Len(events) < MaxEvents /\ events' = Append(events, v)
    /\ overdue' = Overdue(k) /\ HangsUp(k)
    /\ UNCHANGED <<pairing, client, got>>

\* a client with client.admin revokes another one
RevokeOther(k, c) ==
    /\ connection[k].at = "acts" /\ connection[k].call = "administration"
    /\ c # ClientAt[k] /\ IsActive(c) /\ Revoked(c)
    /\ overdue' = Overdue(k) /\ HangsUp(k)
    /\ UNCHANGED <<pairing, events, got>>

\* mutant: who was active when the stream was opened
StillActiveAsOpened(k) == TRUE

StillActive(k) == IsActive(ClientAt[k])

\* each round of stream_task_events: the state of the client, then the events
CheckActive(k) ==
    /\ connection[k].at = "checks"
    /\ IF StillActive(k) THEN Onwards(k, "reads") ELSE HangsUp(k)
    /\ UNCHANGED <<pairing, client, events, got, overdue>>

\* read_events_since, without those the client is not to see
Since(id) == {newer \in id + 1 .. Len(events) : newer <= id + Batch}

ReadEvents(k) ==
    /\ connection[k].at = "reads"
    /\ connection' = [connection EXCEPT ![k].at = "sends", ![k].batch = Select(Since(connection[k].cursor))]
    /\ overdue' = Overdue(k)
    /\ UNCHANGED <<pairing, client, events, got>>

SendEvent(k) ==
    LET c == connection[k]
    IN  /\ c.at = "sends"
        /\ \E id \in c.batch :
             /\ \A other \in c.batch : id <= other
             /\ connection' = [connection EXCEPT ![k].batch = @ \ {id}, ![k].cursor = id]
             /\ got' = [got EXCEPT ![k] = Append(@, id)]
        /\ UNCHANGED <<pairing, client, events, overdue>>

\* a snapshot (follow=0) ends with its first batch
EndBatch(k) ==
    /\ connection[k].at = "sends" /\ connection[k].batch = {}
    /\ IF connection[k].call = "stream" THEN Onwards(k, "checks") ELSE HangsUp(k)
    /\ UNCHANGED <<pairing, client, events, got, overdue>>

\* the client is gone, which the thread finds when it sends
ConnectionBreaks(k) ==
    /\ connection[k].at = "sends" /\ connection[k].batch # {} /\ HangsUp(k)
    /\ UNCHANGED <<pairing, client, events, got, overdue>>

\* append_event, by whoever works on the task
AppendEvent(v) ==
    /\ Len(events) < MaxEvents /\ events' = Append(events, v)
    /\ UNCHANGED <<pairing, client, connection, got, overdue>>

-----------------------------------------------------------------------------

CoreInit ==
    /\ pairing = [g \in Code |-> "none"]
    /\ client = [c \in Client |-> [state |-> "none", code |-> NoCode, has |-> FALSE]]
    /\ events = <<>>
    /\ connection = [k \in Connection |-> HungUp]
    /\ got = [k \in Connection |-> <<>>]
    /\ overdue = [k \in Connection |-> 0]

CoreNext ==
    \/ \E g \in Code : CreatePairing(g) \/ PairingExpires(g) \/ \E c \in Client : ExchangePairing(g, c)
    \/ \E c \in Client : RevokeByHand(c)
    \/ \E v \in {"normal", "internal"} : AppendEvent(v) \/ \E k \in Connection : Act(k, v)
    \/ \E k \in Connection :
         \/ \E c \in Client : RevokeOther(k, c)
         \/ \E call \in Calls : Authenticate(k, call)
         \/ Require(k) \/ CheckActive(k) \/ ReadEvents(k) \/ SendEvent(k) \/ EndBatch(k) \/ ConnectionBreaks(k)

CoreSpec == CoreInit /\ [][CoreNext]_coreVars

-----------------------------------------------------------------------------
(* Properties *)

\* A code makes at most one client, whoever asks (test_pairing_token_is_one_time_...).
OneClientPerCode == \A g \in Code : Cardinality({c \in Client : client[c].code = g}) <= 1

\* What a client received, over all its streams, are the events it may see up
\* to the last of them, each once and in order: none is passed over between two
\* batches or by connecting again.
StreamIsExact ==
    \A k \in Connection :
        /\ {got[k][i] : i \in DOMAIN got[k]} = Select(1 .. LastOf(got[k]))
        /\ \A i, j \in DOMAIN got[k] : i < j => got[k][i] < got[k][j]

\* Of a revoked client no more than the step under way still happens: one
\* request, or one batch of one stream (test_open_event_stream_stops_...).
RevocationCuts == \A k \in Connection : overdue[k] <= 1

CoreIsSound == OneClientPerCode /\ StreamIsExact /\ RevocationCuts
=============================================================================
