----------------------------- MODULE EventStream ----------------------------
(***************************************************************************)
(* One session's event stream: RedisEventBus (XADD capped by MAXLEN, XREAD *)
(* strictly after a cursor, TTL), the SSE relay of api/sse.py, and the     *)
(* clients that follow it over connections that break, and that come back  *)
(* with Last-Event-ID.                                                     *)
(*                                                                         *)
(* An event is its position in everything ever published: Redis ids are    *)
(* increasing, and XREAD after an id needs no entry with that id.  What    *)
(* the relay has yielded and the client has not received is lost with the  *)
(* connection.                                                             *)
(***************************************************************************)
EXTENDS Integers, Sequences, SequencesExt

CONSTANTS
    Clients,
    MaxLen,     \* RedisEventBus maxlen
    MaxEvents,  \* bound: events published
    MaxDrops    \* bound: connections that break, per client

ASSUME EventStreamAssumption ==
    /\ MaxLen \in Nat \ {0}
    /\ MaxEvents \in Nat
    /\ MaxDrops \in Nat

VARIABLES
    published,  \* the types of the events published so far
    gone,       \* the events 1..gone are trimmed or expired
    relay,      \* client -> the relay that serves its connection
    wire,       \* client -> frames yielded and not yet received
    client      \* client -> what it has received

vars == <<published, gone, relay, wire, client>>

-----------------------------------------------------------------------------
\* "plain" stands for every event type that is not terminal.
TerminalTypes == {"done", "failed"}
Types == TerminalTypes \cup {"plain"}
Ids == 1..Len(published)
Terminal(id) == published[id] \in TerminalTypes

\* tail(): the cursor, and the rest of the batch the last XREAD returned.
Relay == [at : {"none", "open", "ended"}, cursor : Nat, batch : Seq(Nat),
          from : Nat]
NoRelay == [at |-> "none", cursor |-> 0, batch |-> <<>>, from |-> 0]

\* got: the ids received; drops: how often its connection broke.
Client == [got : Seq(Nat), drops : 0..MaxDrops]

LastEventId(c) == IF client[c].got = <<>> THEN 0 ELSE Last(client[c].got)

Init ==
    /\ published = <<>>
    /\ gone = 0
    /\ relay = [c \in Clients |-> NoRelay]
    /\ wire = [c \in Clients |-> <<>>]
    /\ client = [c \in Clients |-> [got |-> <<>>, drops |-> 0]]

-----------------------------------------------------------------------------
\* Approximate MAXLEN trims whole nodes: perhaps nothing, never below maxlen.
Trims(n) == gone' \in gone..(IF n - MaxLen > gone THEN n - MaxLen ELSE gone)

\* publish()
Publish ==
    /\ Len(published) < MaxEvents
    /\ \E type \in Types : published' = Append(published, type)
    /\ Trims(Len(published) + 1)
    /\ UNCHANGED <<relay, wire, client>>

\* The TTL runs out after the last publication; the session is over by then.
Expire ==
    /\ Len(published) = MaxEvents
    /\ gone' = Len(published)
    /\ UNCHANGED <<published, relay, wire, client>>

-----------------------------------------------------------------------------
\* Mutant: every connection starts from the backlog.
ConnectAfresh(c) ==
    /\ relay[c].at = "none"
    /\ relay' = [relay EXCEPT ![c] = [NoRelay EXCEPT !.at = "open"]]
    /\ UNCHANGED <<published, gone, wire, client>>

\* GET /v1/sessions/{key}/events; a client that comes back sends the id of the
\* last event it received.
Connect(c) ==
    /\ relay[c].at = "none"
    /\ relay' = [relay EXCEPT ![c] = [at |-> "open", cursor |-> LastEventId(c),
                                      batch |-> <<>>, from |-> LastEventId(c)]]
    /\ UNCHANGED <<published, gone, wire, client>>

\* Entries strictly after the cursor that are still there.
After(cursor) ==
    LET first == IF cursor > gone THEN cursor ELSE gone
    IN  [k \in 1..(Len(published) - first) |-> first + k]

\* XREAD; with nothing new it blocks, times out and is armed again.
Read(c) ==
    /\ relay[c].at = "open"
    /\ relay[c].batch = <<>>
    /\ After(relay[c].cursor) # <<>>
    /\ relay' = [relay EXCEPT ![c].batch = After(relay[c].cursor)]
    /\ UNCHANGED <<published, gone, wire, client>>

\* Mutant: the relay ends before it yields the terminal event.
YieldNotLast(c) ==
    /\ relay[c].at = "open"
    /\ relay[c].batch # <<>>
    /\ LET id == Head(relay[c].batch)
       IN  IF Terminal(id)
           THEN /\ relay' = [relay EXCEPT ![c].at = "ended", ![c].batch = <<>>]
                /\ UNCHANGED wire
           ELSE /\ wire' = [wire EXCEPT ![c] = Append(@, id)]
                /\ relay' = [relay EXCEPT ![c].cursor = id,
                                          ![c].batch = Tail(@)]
    /\ UNCHANGED <<published, gone, client>>

\* Mutant: the relay follows the stream past its end.
YieldOn(c) ==
    /\ relay[c].at = "open"
    /\ relay[c].batch # <<>>
    /\ LET id == Head(relay[c].batch)
       IN  /\ wire' = [wire EXCEPT ![c] = Append(@, id)]
           /\ relay' = [relay EXCEPT ![c].cursor = id, ![c].batch = Tail(@)]
    /\ UNCHANGED <<published, gone, client>>

\* session_event_stream yields the next entry, and returns after a terminal one.
Yield(c) ==
    /\ relay[c].at = "open"
    /\ relay[c].batch # <<>>
    /\ LET id == Head(relay[c].batch)
       IN  /\ wire' = [wire EXCEPT ![c] = Append(@, id)]
           /\ relay' = [relay EXCEPT
                          ![c].cursor = id,
                          ![c].batch = IF Terminal(id) THEN <<>> ELSE Tail(@),
                          ![c].at = IF Terminal(id) THEN "ended" ELSE "open"]
    /\ UNCHANGED <<published, gone, client>>

Receive(c) ==
    /\ wire[c] # <<>>
    /\ client' = [client EXCEPT ![c].got = Append(@, Head(wire[c]))]
    /\ wire' = [wire EXCEPT ![c] = Tail(@)]
    /\ UNCHANGED <<published, gone, relay>>

\* Everything is received and the relay has returned: the response ends, and an
\* EventSource may connect again.
Close(c) ==
    /\ relay[c].at = "ended"
    /\ wire[c] = <<>>
    /\ relay' = [relay EXCEPT ![c] = NoRelay]
    /\ UNCHANGED <<published, gone, wire, client>>

\* The connection breaks: frames in flight are lost, the relay is closed.
Drop(c) ==
    /\ relay[c].at # "none"
    /\ client[c].drops < MaxDrops
    /\ relay' = [relay EXCEPT ![c] = NoRelay]
    /\ wire' = [wire EXCEPT ![c] = <<>>]
    /\ client' = [client EXCEPT ![c].drops = @ + 1]
    /\ UNCHANGED <<published, gone>>

-----------------------------------------------------------------------------
Next == \/ Publish \/ Expire
        \/ \E c \in Clients : \/ Connect(c) \/ Read(c) \/ Yield(c) \/ Receive(c)
                              \/ Close(c) \/ Drop(c)

Spec == Init /\ [][Next]_vars

\* Relays and connections make progress, and a client that was cut off comes
\* back; nothing obliges a session to publish.
FairSpec ==
    /\ Spec
    /\ \A c \in Clients : /\ WF_vars(Connect(c)) /\ WF_vars(Read(c))
                          /\ WF_vars(Yield(c)) /\ WF_vars(Receive(c))
                          /\ WF_vars(Close(c))

-----------------------------------------------------------------------------
TypeOK ==
    /\ published \in Seq(Types)
    /\ gone \in 0..Len(published)
    /\ relay \in [Clients -> Relay]
    /\ wire \in [Clients -> Seq(Ids)]
    /\ client \in [Clients -> Client]

\* "No gaps, no replays": across all its connections a client receives events in
\* publication order, none twice, and misses only what was trimmed.
NoGapsNoReplays ==
    \A c \in Clients :
        LET seen == client[c].got \o wire[c]
            ids == {seen[i] : i \in DOMAIN seen}
        IN  /\ \A i, j \in DOMAIN seen : i < j => seen[i] < seen[j]
            /\ \A i \in Ids : seen # <<>> /\ i < Last(seen) => i \in ids \/ i <= gone

\* One response never goes on after a terminal event: the relay has returned, and
\* the terminal frame is the last one on the wire.
EndsWithTerminal ==
    \A c \in Clients :
        /\ \A i \in DOMAIN wire[c] :
              Terminal(wire[c][i]) => i = Len(wire[c]) /\ relay[c].at = "ended"
        /\ relay[c].at = "open" => \A i \in Ids :
              relay[c].from < i /\ i <= relay[c].cursor => ~Terminal(i) \/ i <= gone

\* What a client sees of the stream, over all its connections and on each.
StreamInv == TypeOK /\ NoGapsNoReplays /\ EndsWithTerminal

\* MAXLEN never costs a client the end of its session: a client that comes back
\* after breaks receives the newest event, terminal or not, unless the stream
\* has expired or a newer one was published.
NewestArrives ==
    \A c \in Clients : \A n \in 1..MaxEvents :
        (Len(published) = n) ~>
            \/ Len(published) # n
            \/ gone = n
            \/ n \in {client[c].got[i] : i \in DOMAIN client[c].got}

\* A terminal event ahead of an open relay ends it, unless it is trimmed first.
\* (A relay opened after the terminal event waits for as long as it is open.)
RelayReturns ==
    \A c \in Clients : \A i \in 1..MaxEvents :
        (relay[c].at = "open" /\ i \in Ids /\ i > relay[c].cursor /\ i > gone
            /\ Terminal(i))
        ~> (relay[c].at # "open" \/ i <= gone)
=============================================================================
