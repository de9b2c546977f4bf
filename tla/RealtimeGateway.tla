--------------------------- MODULE RealtimeGateway ---------------------------
(***************************************************************************)
(* Realtime connections of one project: subscriptions, presence, and the   *)
(* fan-out of a database change. packages/realtime/src/gateway.ts and      *)
(* presence.ts; the steps of a handler are its stretches between awaits,   *)
(* and a call of the presence store takes effect in a step of its own.     *)
(*                                                                         *)
(* A text frame is handled while an earlier one of the same connection is  *)
(* still awaited (server.ts feeds every chunk on its own), and a handler   *)
(* that was awaiting goes on after its connection is dropped.              *)
(***************************************************************************)
EXTENDS Naturals, Sequences, FiniteSets, FiniteSetsExt, Functions

CONSTANTS
    Conns,          \* authenticated sockets
    Channels,
    Tables,         \* those of Channels that name a table
    UserOf,         \* [Conns -> users and Null]: Null for a project key
    Requests,       \* text frames that clients send
    Changes,        \* database changes that the change feed publishes
    MaxConns,       \* maxConnsPerProject
    MaxSubs,        \* maxSubsPerConn
    MaxFaults,      \* bound: calls of the presence store that fail
    Null

Users == {UserOf[k] : k \in Conns} \ {Null}
Kinds == {"subscribe", "unsubscribe", "presence.set", "presence.remove"}
Frames == [kind : Kinds, conn : Conns, channel : Channels]

ASSUME GatewayAssumption ==
    /\ IsFiniteSet(Conns) /\ IsFiniteSet(Requests)
    /\ Tables \subseteq Channels
    /\ Channels \cap {"no", "next", "closed"} = {}
    /\ Null \notin Channels \cup Frames
    /\ MaxConns \in Nat /\ MaxSubs \in Nat /\ MaxFaults \in Nat

VARIABLES
    arrived,    \* the connections in the order they registered
    live,       \* those in the gateway's map
    subs,       \* subscriptions of a connection; kept by its object once dropped
    present,    \* presence entries: pairs of a channel and a user
    pc, req,    \* of a request: where it is, and what it asks for
    leaving,    \* of a connection: how far drop() has come
    fanOut,     \* of a change: the position in arrived that its fan-out has come to
    got,        \* of a change: the connections it was delivered to
    failures,
    late,       \* history: entries made for a dropped connection, or whose removal failed
    steady,     \* history: of a change, who subscribed to it and has stayed
    crowded     \* history: subscriptions another one overtook after they were counted

sockets     == <<arrived, live, subs>>
calls       == <<pc, req>>
feed        == <<fanOut, got, steady>>
gatewayVars == <<sockets, present, calls, leaving, feed, failures, late, crowded>>

GatewayTypeOK ==
    /\ arrived \in Seq(Conns) /\ live \subseteq Range(arrived)
    /\ subs \in [Conns -> SUBSET Channels]
    /\ present \subseteq Channels \X Users
    /\ pc \in [Requests -> {"idle", "limit", "ensure", "track", "join", "remove", "done"}]
    /\ req \in [Requests -> Frames \cup {Null}]
    /\ leaving \in [Conns -> [at : {"no", "next", "closed"} \cup Channels, seen : SUBSET Channels]]
    /\ fanOut \in [Changes -> [channel : Tables \cup {Null}, at : 0 .. Cardinality(Conns)]]
    /\ got \in [Changes -> SUBSET Conns] /\ steady \in [Changes -> SUBSET Conns]
    /\ failures \in 0 .. MaxFaults
    /\ late \subseteq present /\ crowded \subseteq Requests

GatewayInit ==
    /\ arrived = <<>> /\ live = {} /\ subs = [k \in Conns |-> {}]
    /\ present = {}
    /\ pc = [r \in Requests |-> "idle"] /\ req = [r \in Requests |-> Null]
    /\ leaving = [k \in Conns |-> [at |-> "no", seen |-> {}]]
    /\ fanOut = [m \in Changes |-> [channel |-> Null, at |-> 0]]
    /\ got = [m \in Changes |-> {}] /\ steady = [m \in Changes |-> {}]
    /\ failures = 0 /\ late = {} /\ crowded = {}

Goto(r, label) == pc' = [pc EXCEPT ![r] = label]
Moved(r, from, to) == pc[r] = from /\ Goto(r, to)

-----------------------------------------------------------------------------
(* Subscriptions.                                                          *)

Register(k) ==
    /\ k \notin Range(arrived) /\ Cardinality(live) < MaxConns
    /\ arrived' = Append(arrived, k) /\ live' = live \cup {k}
    /\ UNCHANGED <<subs, present, calls, leaving, feed, failures, late, crowded>>

\* handleText finds the connection, then awaits the rate limit.
HandleText(r) ==
    /\ Moved(r, "idle", "limit")
    /\ \E kind \in Kinds, k \in live, c \in Channels :
          req' = [req EXCEPT ![r] = [kind |-> kind, conn |-> k, channel |-> c]]
    /\ UNCHANGED <<sockets, present, leaving, feed, failures, late, crowded>>

Asks(r, kind) == pc[r] = "limit" /\ req[r].kind = kind

\* conn.subscriptions.add for request r.
AddSubscription(r) ==
    LET k == req[r].conn IN
    /\ subs' = [subs EXCEPT ![k] = @ \cup {req[r].channel}]
    /\ crowded' = crowded \cup {s \in Requests \ {r} : pc[s] = "ensure" /\ req[s].conn = k}

\* Mutant: the limit is off by one.
HasRoomForOneMore(k) == Cardinality(subs[k]) <= MaxSubs

HasRoom(k) == Cardinality(subs[k]) < MaxSubs

Subscribe(r) ==
    /\ Asks(r, "subscribe")
    /\ \/ /\ ~HasRoom(req[r].conn) /\ Goto(r, "done")
          /\ UNCHANGED <<subs, crowded>>
       \/ /\ HasRoom(req[r].conn) /\ req[r].channel \in Tables /\ Goto(r, "ensure")
          /\ UNCHANGED <<subs, crowded>>
       \/ /\ HasRoom(req[r].conn) /\ req[r].channel \notin Tables /\ Goto(r, "done")
          /\ AddSubscription(r)
    /\ UNCHANGED <<arrived, live, present, req, leaving, feed, failures, late>>

\* The table's feed is there, or the subscription is refused.
EnsureTable(r) ==
    /\ Moved(r, "ensure", "done")
    /\ \/ AddSubscription(r)
       \/ UNCHANGED <<subs, crowded>>
    /\ UNCHANGED <<arrived, live, present, req, leaving, feed, failures, late>>

\* k is no longer served on the channels cs.
NotSteady(k, cs) ==
    steady' = [m \in Changes |-> IF fanOut[m].channel \in cs THEN steady[m] \ {k} ELSE steady[m]]

\* Mutant: unsubscribing leaves the entry.
UnsubscribeOnly(r) ==
    LET k == req[r].conn
        c == req[r].channel IN
    /\ Asks(r, "unsubscribe") /\ Goto(r, "done")
    /\ subs' = [subs EXCEPT ![k] = @ \ {c}]
    /\ leaving' = [leaving EXCEPT ![k].seen = @ \ {c}]
    /\ NotSteady(k, {c})
    /\ UNCHANGED <<arrived, live, present, req, fanOut, got, failures, late, crowded>>

\* The removal of the entry is not awaited. A name deleted from a Set that
\* drop() iterates is visited again when it comes back.
Unsubscribe(r) ==
    LET k == req[r].conn
        c == req[r].channel IN
    /\ Asks(r, "unsubscribe") /\ Goto(r, IF UserOf[k] = Null THEN "done" ELSE "remove")
    /\ subs' = [subs EXCEPT ![k] = @ \ {c}]
    /\ leaving' = [leaving EXCEPT ![k].seen = @ \ {c}]
    /\ NotSteady(k, {c})
    /\ UNCHANGED <<arrived, live, present, req, fanOut, got, failures, late, crowded>>

-----------------------------------------------------------------------------
(* Presence: an entry belongs to a user, whatever the connection.          *)

Entry(k, c) == <<c, UserOf[k]>>
EntryOf(r) == Entry(req[r].conn, req[r].channel)

Fault == failures < MaxFaults /\ failures' = failures + 1

\* presence.remove takes effect, or fails and the failure is swallowed.
RemoveEntry(e) ==
    \/ /\ present' = present \ {e} /\ late' = late \ {e} /\ UNCHANGED failures
    \/ /\ Fault /\ late' = late \cup ({e} \cap present) /\ UNCHANGED present

AskForPresence(r) ==
    /\ \/ Asks(r, "presence.set") /\ Goto(r, IF UserOf[req[r].conn] = Null THEN "done" ELSE "track")
       \/ Asks(r, "presence.remove") /\ Goto(r, IF UserOf[req[r].conn] = Null THEN "done" ELSE "remove")
    /\ UNCHANGED <<sockets, present, req, leaving, feed, failures, late, crowded>>

\* A call that fails ends the request; a command that fails within the pipeline
\* does not, and the request goes on as if the entry were there.
Track(r) ==
    /\ pc[r] = "track"
    /\ \/ present' = present \cup {EntryOf(r)} /\ Goto(r, "join") /\ UNCHANGED failures
       \/ Fault /\ (Goto(r, "join") \/ Goto(r, "done")) /\ UNCHANGED present
    /\ UNCHANGED <<sockets, req, leaving, feed, late, crowded>>

\* Tracking joins the channel, past the limit and on a dropped connection too.
Join(r) ==
    /\ Moved(r, "join", "done")
    /\ AddSubscription(r)
    /\ late' = IF req[r].conn \in live THEN late ELSE late \cup ({EntryOf(r)} \cap present)
    /\ UNCHANGED <<arrived, live, present, req, leaving, feed, failures>>

Remove(r) ==
    /\ Moved(r, "remove", "done")
    /\ RemoveEntry(EntryOf(r))
    /\ UNCHANGED <<sockets, req, leaving, feed, crowded>>

\* Redis: nobody has tracked on the channel for the time to live.
RoomExpires(c) ==
    /\ \E e \in present : e[1] = c
    /\ present' = {e \in present : e[1] # c}
    /\ late' = {e \in late : e[1] # c}
    /\ UNCHANGED <<sockets, calls, leaving, feed, failures, crowded>>

-----------------------------------------------------------------------------
(* drop: a socket closes or fails, or the sweep finds its heartbeat overdue *)
(* or its credential expired.                                              *)

Drop(k) ==
    /\ k \in live /\ live' = live \ {k}
    /\ leaving' = [leaving EXCEPT ![k].at = IF UserOf[k] = Null THEN "closed" ELSE "next"]
    /\ NotSteady(k, Tables)
    /\ UNCHANGED <<arrived, subs, present, calls, fanOut, got, failures, late, crowded>>

\* The loop reads the Set as it is by now; at its end the socket is closed.
DropNext(k) ==
    LET rest == subs[k] \ leaving[k].seen IN
    /\ leaving[k].at = "next"
    /\ \/ \E c \in rest :
             leaving' = [leaving EXCEPT ![k] = [at |-> c, seen |-> @.seen \cup {c}]]
       \/ rest = {} /\ leaving' = [leaving EXCEPT ![k].at = "closed"]
    /\ UNCHANGED <<sockets, present, calls, feed, failures, late, crowded>>

DropRemove(k) ==
    /\ leaving[k].at \in Channels
    /\ leaving' = [leaving EXCEPT ![k].at = "next"]
    /\ RemoveEntry(Entry(k, leaving[k].at))
    /\ UNCHANGED <<sockets, calls, feed, crowded>>

-----------------------------------------------------------------------------
(* onBusMessage of a database change: the connections in the order of the  *)
(* map, with the columns of the table looked up between them. Rows here    *)
(* pass the filters and are everybody's.                                   *)

\* Mutant: positions are those of a list that shrinks as connections go.
AfterInList(c, p) ==
    LET list == SelectSeq(arrived, LAMBDA k : k \in live)
        next == {i \in p + 1 .. Len(list) : c \in subs[list[i]]}
    IN IF next = {} THEN 0 ELSE CHOOSE i \in 1 .. Len(arrived) : arrived[i] = list[Min(next)]

\* Position of the next subscriber of c after p; 0 when there is none. An
\* iteration of a Map skips what was deleted and reaches what was added.
After(c, p) ==
    LET next == {i \in p + 1 .. Len(arrived) : arrived[i] \in live /\ c \in subs[arrived[i]]}
    IN IF next = {} THEN 0 ELSE Min(next)

Publish(m) ==
    /\ fanOut[m].channel = Null
    /\ \E c \in Tables :
          /\ fanOut' = [fanOut EXCEPT ![m] = [channel |-> c, at |-> After(c, 0)]]
          /\ steady' = [steady EXCEPT ![m] = {k \in live : c \in subs[k]}]
    /\ UNCHANGED <<sockets, present, calls, leaving, got, failures, late, crowded>>

\* The columns are there: deliver, and go to the next subscriber.
Deliver(m) ==
    /\ fanOut[m].at # 0
    /\ got' = [got EXCEPT ![m] = @ \cup {arrived[fanOut[m].at]}]
    /\ fanOut' = [fanOut EXCEPT ![m].at = After(fanOut[m].channel, @)]
    /\ UNCHANGED <<sockets, present, calls, leaving, steady, failures, late, crowded>>

-----------------------------------------------------------------------------
Handle(r) ==
    \/ HandleText(r) \/ Subscribe(r) \/ EnsureTable(r) \/ Unsubscribe(r)
    \/ AskForPresence(r) \/ Track(r) \/ Join(r) \/ Remove(r)

GatewayNext ==
    \/ \E k \in Conns : Register(k) \/ Drop(k) \/ DropNext(k) \/ DropRemove(k)
    \/ \E r \in Requests : Handle(r)
    \/ \E c \in Channels : RoomExpires(c)
    \/ \E m \in Changes : Publish(m) \/ Deliver(m)

GatewaySpec == GatewayInit /\ [][GatewayNext]_gatewayVars

-----------------------------------------------------------------------------
(* Properties.                                                             *)

\* Who is present on a channel listens to it on some connection, unless the
\* entry is about to be removed, its tracking has not joined the channel yet,
\* it was made for a connection that had been dropped meanwhile, or its
\* removal failed: disconnect and unsubscribe take the entry away, whatever
\* they overlap (gateway.ts, trackPresence, unsubscribe and drop).
PresentMeansListening ==
    \A e \in present :
       LET c == e[1]
           own == {k \in Conns : UserOf[k] = e[2]}
       IN \/ \E k \in own \cap live : c \in subs[k]
          \/ \E k \in own : \/ leaving[k].at = c
                            \/ leaving[k].at \in Channels \cup {"next"} /\ c \in subs[k] \ leaving[k].seen
          \/ \E r \in Requests : pc[r] \in {"join", "remove"} /\ EntryOf(r) = e
          \/ e \in late

\* A connection holds more subscriptions than the limit only by presence.set,
\* which does not look at it, or by a subscription that another one overtook
\* while its table's feed was looked up: at most one more for each of them.
OvershootHasAReason ==
    \A k \in Conns :
       Cardinality(subs[k]) <= MaxSubs + Cardinality(
          {r \in Requests : /\ pc[r] = "done" /\ req[r].conn = k
                            /\ req[r].kind = "presence.set" \/ r \in crowded})

\* Whoever subscribed to a table before a change was published and neither
\* left nor was dropped until its fan-out ended has got it: connections that
\* come and go during the fan-out hide nobody (gateway.ts, onBusMessage).
SteadySubscribersAreServed ==
    \A m \in Changes : fanOut[m].channel # Null /\ fanOut[m].at = 0 => steady[m] \subseteq got[m]
=============================================================================
