------------------------------ MODULE IRCClient ------------------------------
(***************************************************************************)
(* The live source: IRCClient of ingestion/irc_client.py.  Three           *)
(* coroutines share its fields: the reader (iter_messages, pulled by the   *)
(* pipeline), the discovery task, and whoever calls join, part or          *)
(* disconnect.  They give way to each other where they await the           *)
(* connection, so an action is the code between two such points.  A command *)
(* reaches the server when it is sent; what the server sends waits in      *)
(* inbox, frame by frame, until the reader takes it.                       *)
(***************************************************************************)
EXTENDS Integers, Sequences, SequencesExt, FiniteSets

CONSTANTS Channels,      \* names of channels
          Configured,    \* the channels given to the constructor, a sequence
          Directory,     \* what LIST reports: a sequence of channels
          Users,         \* and how many users each of them has
          MaxChannels,   \* max_channels
          MaxMessages,   \* bound: chat messages the server sends
          MaxFaults,     \* bound: lost connections, failed attempts, bad frames
          MaxCalls,      \* bound: calls of join and part
          Requested,     \* bound: the channels they are about
          Absent         \* no LIST is being collected (None)

ASSUME ChannelsAssumption ==
    /\ Configured \in Seq(Channels) /\ Directory \in Seq(Channels)
    /\ IsInjective(Configured) /\ IsInjective(Directory)
    /\ Users \in [Channels -> Nat]
    /\ MaxChannels \in Nat /\ Requested \subseteq Channels
ASSUME BoundsAssumption ==
    /\ MaxMessages \in Nat /\ MaxFaults \in Nat /\ MaxCalls \in Nat
ASSUME AbsentAssumption == Absent \notin Seq(Channels)

VARIABLES
    channels,      \* self.channels
    conn,          \* what _ws refers to: "none", an "open" or a "closed" connection
    connected,     \* _connected
    stop,          \* _stop_event
    listing,       \* _pending_list
    pendingJoins,  \* _pending_joins
    discovery,     \* _discovery_task: "none" or "running"
    pc,            \* where the reader is
    at,            \* the JOIN it sends next, in channels or in pendingJoins
    lines,         \* the lines of the current frame that are still to be handled
    closing,       \* where disconnect is
    inbox,         \* frames on their way to the reader
    joined,        \* the channels the server has the client in
    \* history and bounds
    posted,        \* chat messages the server has sent
    first,         \* the first of them on this connection
    got,           \* those yielded from this connection
    asked,         \* a LIST is with the server and its end is not handled yet
    cutList,       \* a connection ended with such a LIST
    raced,         \* disconnect was called during an attempt to connect
    parted,        \* part was called during joins that were under way
    leaked,        \* where an open connection was forgotten: "frame", "disconnect"
    faults, calls

client  == <<channels, conn, connected, stop, listing, pendingJoins, discovery>>
reader  == <<pc, at, lines>>
server  == <<inbox, joined, posted>>
history == <<first, got, asked, cutList, raced, parted, leaked>>
vars    == <<client, reader, closing, server, history, faults, calls>>

Places  == {"top", "retry", "opening", "joining", "reading", "flush", "lines",
            "yielded", "ended"}
Streaming == {"reading", "flush", "lines", "yielded"}

\* Lines: a PING, an answer to our PING, the 322 lines of a LIST, its 323, a chat
\* message with its number, and a frame that is not text.
Ping     == [kind |-> "ping"]
Pong     == [kind |-> "pong"]
ListOf   == [kind |-> "list"]
ListEnd  == [kind |-> "end"]
Chat(n)  == [kind |-> "chat", id |-> n]
Binary   == [kind |-> "binary"]

\* The numbers of the chat messages of a frame.
IsChat(l)  == l.kind = "chat"
ChatIds(f) == {f[k].id : k \in {i \in DOMAIN f : IsChat(f[i])}}

Init ==
    /\ channels = Configured
    /\ conn = "none" /\ connected = FALSE /\ stop = FALSE
    /\ listing = Absent /\ pendingJoins = <<>> /\ discovery = "none"
    /\ pc = "top" /\ at = 0 /\ lines = <<>> /\ closing = "no"
    /\ inbox = <<>> /\ joined = {} /\ posted = 0
    /\ first = 1 /\ got = <<>>
    /\ asked = FALSE /\ cutList = FALSE /\ raced = FALSE /\ parted = FALSE
    /\ leaked = {} /\ faults = 0 /\ calls = 0

-----------------------------------------------------------------------------
\* Sending.  _send does nothing without a connection, raises on a closed one.

Raises == conn = "closed"

\* The server's state after JOIN c, when the connection carries it.
JoinedWith(c) == IF conn = "open" THEN joined \cup {c} ELSE joined

\* The except clauses of iter_messages: forget the connection, start over.
\* The connection is not closed there: one that is still open is left behind.
Fail ==
    /\ connected' = FALSE /\ conn' = "none"
    /\ leaked' = leaked \cup (IF conn = "open" THEN {"frame"} ELSE {})
    /\ cutList' = (cutList \/ asked) /\ asked' = FALSE
    /\ inbox' = <<>> /\ joined' = {} /\ lines' = <<>>
    /\ pc' = "top" /\ at' = 0
    /\ UNCHANGED <<channels, stop, listing, pendingJoins, discovery, closing, posted,
                   first, got, raced, parted, faults, calls>>

-----------------------------------------------------------------------------
\* The reader: connecting.

\* The head of iter_messages and of every attempt of _connect_with_backoff: a
\* stopped client ends, any other starts to connect.
Attempt ==
    /\ pc \in {"top", "retry"}
    /\ pc' = IF stop THEN "ended" ELSE "opening"
    /\ UNCHANGED <<client, at, lines, closing, server, history, faults, calls>>

\* The attempt fails; tenacity waits and tries again.
OpenFailed ==
    /\ pc = "opening" /\ faults < MaxFaults
    /\ pc' = "retry" /\ faults' = faults + 1
    /\ UNCHANGED <<client, at, lines, closing, server, history, calls>>

\* The connection is there: remember it and register.
Opened ==
    /\ pc = "opening"
    /\ conn' = "open" /\ connected' = TRUE
    /\ inbox' = <<>> /\ joined' = {}
    /\ first' = posted + 1 /\ got' = <<>>
    /\ pc' = "joining" /\ at' = 1
    /\ UNCHANGED <<channels, stop, listing, pendingJoins, discovery, lines, closing,
                   posted, asked, cutList, raced, parted, leaked, faults, calls>>

\* Fault: an error while joining ends the reader.
JoinErrorEnds ==
    /\ pc = "joining" /\ at <= Len(channels)
    /\ IF Raises
       THEN /\ pc' = "ended" /\ at' = 0
            /\ cutList' = (cutList \/ asked) /\ asked' = FALSE
            /\ UNCHANGED joined
       ELSE /\ joined' = JoinedWith(channels[at]) /\ at' = at + 1
            /\ UNCHANGED <<pc, cutList, asked>>
    /\ UNCHANGED <<client, lines, closing, inbox, posted, first, got, raced, parted,
                   leaked, faults, calls>>

\* One turn of _join_channels, over the list as it is now.  An error is an
\* attempt that failed: tenacity tries again, _connected is not reset.
JoinNext ==
    /\ pc = "joining" /\ at <= Len(channels)
    /\ IF Raises
       THEN /\ pc' = "retry" /\ at' = 0
            /\ cutList' = (cutList \/ asked) /\ asked' = FALSE
            /\ UNCHANGED joined
       ELSE /\ joined' = JoinedWith(channels[at]) /\ at' = at + 1
            /\ UNCHANGED <<pc, cutList, asked>>
    /\ UNCHANGED <<client, lines, closing, inbox, posted, first, got, raced, parted,
                   leaked, faults, calls>>

\* Fault: reading begins when the channels of the constructor are joined.
ReadyAfterConfigured ==
    /\ pc = "joining" /\ at > Len(Configured)
    /\ pc' = IF stop THEN "ended" ELSE "reading"
    /\ discovery' = IF stop THEN discovery ELSE "running"
    /\ at' = 0
    /\ UNCHANGED <<channels, conn, connected, stop, listing, pendingJoins, lines,
                   closing, server, history, faults, calls>>

\* connect has returned.  A stopped client ends; any other starts the discovery
\* task, once, and begins to read.
Ready ==
    /\ pc = "joining" /\ at > Len(channels)
    /\ pc' = IF stop THEN "ended" ELSE "reading"
    /\ discovery' = IF stop THEN discovery ELSE "running"
    /\ at' = 0
    /\ UNCHANGED <<channels, conn, connected, stop, listing, pendingJoins, lines,
                   closing, server, history, faults, calls>>

-----------------------------------------------------------------------------
\* The reader: reading.

\* recv returns a frame; joins that discovery left are sent before its lines.
Receive ==
    /\ pc = "reading" /\ inbox # <<>>
    /\ inbox' = Tail(inbox) /\ lines' = Head(inbox)
    /\ pc' = IF pendingJoins = <<>> THEN "lines" ELSE "flush"
    /\ at' = 1
    /\ UNCHANGED <<client, closing, joined, posted, history, faults, calls>>

\* recv raises: the connection is closed, and its last frame has been read.
Lost ==
    /\ pc = "reading" /\ inbox = <<>> /\ conn # "open"
    /\ Fail

\* recv times out.  A stopped client ends; otherwise, when the connection was
\* quiet for long enough, a PING is sent, and the server answers it.
Heartbeat ==
    /\ pc = "reading" /\ inbox = <<>> /\ conn = "open"
    /\ IF stop
       THEN pc' = "ended" /\ at' = 0 /\ UNCHANGED inbox
       ELSE inbox' = <<<<Pong>>>> /\ UNCHANGED <<pc, at>>
    /\ UNCHANGED <<client, lines, closing, joined, posted, history, faults, calls>>

\* One pending JOIN, or the end of them.
FlushNext ==
    /\ pc = "flush"
    /\ \/ /\ at <= Len(pendingJoins) /\ Raises /\ Fail
       \/ /\ at <= Len(pendingJoins) /\ ~Raises
          /\ joined' = JoinedWith(pendingJoins[at]) /\ at' = at + 1
          /\ UNCHANGED <<client, pc, lines, inbox, posted, history>>
          /\ UNCHANGED <<closing, faults, calls>>
       \/ /\ at > Len(pendingJoins)
          /\ pendingJoins' = <<>> /\ pc' = "lines"
          /\ UNCHANGED <<channels, conn, connected, stop, listing, discovery, at,
                         lines, server, history, closing, faults, calls>>

\* The channels of a LIST that discovery would join.
NewChannels(list, current) == {c \in Range(list) : c \notin current /\ Users[c] > 0}

\* They are sorted, most users first; the sort is stable.
Busier(c, d) == \/ Users[c] > Users[d]
                \/ /\ Users[c] = Users[d]
                   /\ \E i, j \in DOMAIN Directory :
                        i < j /\ Directory[i] = c /\ Directory[j] = d
MostUsersFirst(S) == {s \in SetToSeqs(S) : \A i, j \in DOMAIN s : i < j => Busier(s[i], s[j])}

\* Fault: the room left is counted from the constructor's channels.
StaleFinishDiscovery(list) ==
    \E new \in MostUsersFirst(NewChannels(list, Range(channels))) :
    LET slots == MaxChannels - Len(Configured)
        chosen == SubSeq(new, 1, IF slots < Len(new) THEN slots ELSE Len(new))
    IN  IF new = <<>> \/ slots <= 0
        THEN UNCHANGED <<channels, pendingJoins>>
        ELSE channels' = channels \o chosen /\ pendingJoins' = chosen

\* _finish_discovery: take as many new channels as there is room for.
FinishDiscovery(list) ==
    \E new \in MostUsersFirst(NewChannels(list, Range(channels))) :
    LET slots == MaxChannels - Cardinality(Range(channels))
        chosen == SubSeq(new, 1, IF slots < Len(new) THEN slots ELSE Len(new))
    IN  IF new = <<>> \/ slots <= 0
        THEN UNCHANGED <<channels, pendingJoins>>
        ELSE channels' = channels \o chosen /\ pendingJoins' = chosen

\* The frame is not text: taking it apart raises.
BadFrame ==
    /\ pc = "lines" /\ lines # <<>> /\ Head(lines).kind = "binary"
    /\ Fail

\* A PING is answered; on a closed connection this raises, and the rest of the
\* frame is lost with it.
HandlePing ==
    /\ pc = "lines" /\ lines # <<>> /\ Head(lines).kind = "ping"
    /\ \/ Raises /\ Fail
       \/ /\ ~Raises
          /\ lines' = Tail(lines)
          /\ UNCHANGED <<client, pc, at, closing, server, history, faults, calls>>

\* Fault: the end of a LIST leaves the list in place.
ListNeverEnds ==
    /\ pc = "lines" /\ lines # <<>> /\ Head(lines).kind \in {"list", "end", "pong"}
    /\ lines' = Tail(lines)
    /\ IF listing # Absent /\ Head(lines).kind = "end"
       THEN FinishDiscovery(listing) /\ asked' = FALSE /\ UNCHANGED listing
       ELSE IF listing # Absent /\ Head(lines).kind = "list"
       THEN listing' = listing \o Directory /\ UNCHANGED <<channels, pendingJoins, asked>>
       ELSE UNCHANGED <<listing, channels, pendingJoins, asked>>
    /\ UNCHANGED <<conn, connected, stop, discovery, pc, at, closing, server, first, got,
                   cutList, raced, parted, leaked, faults, calls>>

\* Lines of a LIST are collected while one is awaited, its end starts the joins;
\* other lines that are no chat are ignored.
HandleListLine ==
    /\ pc = "lines" /\ lines # <<>> /\ Head(lines).kind \in {"list", "end", "pong"}
    /\ lines' = Tail(lines)
    /\ IF listing # Absent /\ Head(lines).kind = "end"
       THEN FinishDiscovery(listing) /\ listing' = Absent /\ asked' = FALSE
       ELSE IF listing # Absent /\ Head(lines).kind = "list"
       THEN listing' = listing \o Directory /\ UNCHANGED <<channels, pendingJoins, asked>>
       ELSE UNCHANGED <<listing, channels, pendingJoins, asked>>
    /\ UNCHANGED <<conn, connected, stop, discovery, pc, at, closing, server, first, got,
                   cutList, raced, parted, leaked, faults, calls>>

\* Fault: yielding a message gives up the rest of its frame.
YieldOnePerFrame ==
    /\ pc = "lines" /\ lines # <<>> /\ Head(lines).kind = "chat"
    /\ got' = Append(got, Head(lines).id)
    /\ lines' = <<>> /\ pc' = "yielded"
    /\ UNCHANGED <<client, at, closing, server, first, asked, cutList, raced, parted,
                   leaked, faults, calls>>

\* A chat message is yielded; the pipeline works on it until it asks again.
Yield ==
    /\ pc = "lines" /\ lines # <<>> /\ Head(lines).kind = "chat"
    /\ got' = Append(got, Head(lines).id)
    /\ lines' = Tail(lines) /\ pc' = "yielded"
    /\ UNCHANGED <<client, at, closing, server, first, asked, cutList, raced, parted,
                   leaked, faults, calls>>

Resume ==
    /\ pc = "yielded" /\ pc' = "lines"
    /\ UNCHANGED <<client, at, lines, closing, server, history, faults, calls>>

\* The frame is done; a stopped client ends, any other reads the next one.
FrameDone ==
    /\ pc = "lines" /\ lines = <<>>
    /\ pc' = IF stop THEN "ended" ELSE "reading"
    /\ at' = 0
    /\ UNCHANGED <<client, lines, closing, server, history, faults, calls>>

Reader == \/ Attempt \/ Opened \/ JoinNext \/ Ready
          \/ Receive \/ Lost \/ Heartbeat \/ FlushNext
          \/ BadFrame \/ HandlePing \/ HandleListLine \/ Yield \/ Resume \/ FrameDone

-----------------------------------------------------------------------------
\* The discovery task.

\* What the server sends for a LIST: one frame, or its end in a frame of its own.
ListReplies == {<<<<ListOf, ListEnd>>>>, <<<<ListOf>>, <<ListEnd>>>>}

\* One round of _discovery_loop: ask for the list unless one is under way.  On a
\* closed connection the LIST raises and _pending_list is reset.
DiscoveryRound ==
    /\ discovery = "running" /\ ~stop
    /\ connected /\ listing = Absent /\ conn = "open"
    /\ listing' = <<>> /\ asked' = TRUE
    /\ \E reply \in ListReplies : inbox' = inbox \o reply
    /\ UNCHANGED <<channels, conn, connected, stop, pendingJoins, discovery, reader,
                   closing, joined, posted, first, got, cutList, raced, parted, leaked,
                   faults, calls>>

-----------------------------------------------------------------------------
\* Callers of join, part and disconnect.

Join(c) ==
    /\ calls < MaxCalls /\ calls' = calls + 1
    /\ channels' = IF c \in Range(channels) THEN channels ELSE Append(channels, c)
    /\ joined' = IF connected THEN JoinedWith(c) ELSE joined
    /\ UNCHANGED <<conn, connected, stop, listing, pendingJoins, discovery, reader,
                   closing, inbox, posted, history, faults>>

\* part: forget the channel, and leave it now when connected.
Part(c) ==
    /\ calls < MaxCalls /\ calls' = calls + 1
    /\ channels' = RemoveFirst(channels, c)
    /\ joined' = IF connected /\ conn = "open" THEN joined \ {c} ELSE joined
    /\ parted' = (parted \/ pc = "joining" \/ c \in Range(pendingJoins))
    /\ UNCHANGED <<conn, connected, stop, listing, pendingJoins, discovery, reader,
                   closing, inbox, posted, first, got, asked, cutList, raced, leaked,
                   faults>>

\* disconnect, up to its first wait: stop everything; without a connection this
\* is all.
Disconnect ==
    /\ closing = "no"
    /\ stop' = TRUE /\ discovery' = "none"
    /\ closing' = IF conn = "none" THEN "done" ELSE "parting"
    /\ connected' = IF conn = "none" THEN FALSE ELSE connected
    /\ raced' = (pc = "opening")
    /\ UNCHANGED <<channels, conn, listing, pendingJoins, reader, server, first, got,
                   asked, cutList, parted, leaked, faults, calls>>

\* Fault: QUIT is sent, the connection is not closed.
QuitOnly ==
    /\ closing = "parting" /\ closing' = "closing"
    /\ joined' = {}
    /\ UNCHANGED <<client, reader, inbox, posted, history, faults, calls>>

\* The PARTs and the QUIT, whether or not they succeed, and the close of the
\* connection _ws refers to now.
Goodbye ==
    /\ closing = "parting" /\ closing' = "closing"
    /\ conn' = IF conn = "open" THEN "closed" ELSE conn
    /\ joined' = {}
    /\ UNCHANGED <<channels, connected, stop, listing, pendingJoins, discovery, reader,
                   inbox, posted, history, faults, calls>>

\* close has returned: forget the connection.
Disconnected ==
    /\ closing = "closing" /\ closing' = "done"
    /\ leaked' = leaked \cup (IF conn = "open" THEN {"disconnect"} ELSE {})
    /\ conn' = "none" /\ connected' = FALSE
    /\ UNCHANGED <<channels, stop, listing, pendingJoins, discovery, reader, server,
                   first, got, asked, cutList, raced, parted, faults, calls>>

-----------------------------------------------------------------------------
\* The server and the network.

\* Frames with some chat from n on: one message, with a PING before it or not, or two.
Frames(n, some) == IF some = 1 THEN {<<Chat(n)>>, <<Ping, Chat(n)>>}
                               ELSE {<<Chat(n), Chat(n + 1)>>}

Post ==
    /\ conn = "open" /\ joined # {} /\ Len(inbox) < 2
    /\ \E some \in 1..2 : \E f \in Frames(posted + 1, some) :
        /\ posted + some <= MaxMessages
        /\ inbox' = Append(inbox, f) /\ posted' = posted + some
    /\ UNCHANGED <<client, reader, closing, joined, history, faults, calls>>

\* A frame that is not text.
PostBinary ==
    /\ conn = "open" /\ Len(inbox) < 2 /\ faults < MaxFaults
    /\ inbox' = Append(inbox, <<Binary>>) /\ faults' = faults + 1
    /\ UNCHANGED <<client, reader, closing, joined, posted, history, calls>>

\* The connection breaks; the last frames may not arrive.
Drop ==
    /\ conn = "open" /\ faults < MaxFaults /\ faults' = faults + 1
    /\ conn' = "closed" /\ joined' = {}
    /\ \E k \in 0..Len(inbox) : inbox' = SubSeq(inbox, 1, k)
    /\ UNCHANGED <<channels, connected, stop, listing, pendingJoins, discovery, reader,
                   closing, posted, history, calls>>

Next ==
    \/ Reader \/ OpenFailed \/ DiscoveryRound
    \/ \E c \in Requested : Join(c) \/ Part(c)
    \/ Disconnect \/ Goodbye \/ Disconnected
    \/ Post \/ PostBinary \/ Drop

\* The reader goes on: attempts and sends end, recv ends by a frame, an error or
\* its timeout, and the pipeline asks for the next message.  The discovery task's
\* sleep ends.  Nothing is assumed of callers, server and network.
Fairness == WF_vars(Reader) /\ WF_vars(DiscoveryRound)

Spec == Init /\ [][Next]_vars /\ Fairness

-----------------------------------------------------------------------------
\* PROPERTIES

\* Every field has values of its type; no channel is listed twice.
TypeOK ==
    /\ channels \in Seq(Channels) /\ pendingJoins \in Seq(Channels)
    /\ IsInjective(channels) /\ IsInjective(pendingJoins)
    /\ listing = Absent \/ listing \in Seq(Channels)
    /\ conn \in {"none", "open", "closed"} /\ connected \in BOOLEAN
    /\ stop \in BOOLEAN /\ discovery \in {"none", "running"}
    /\ pc \in Places /\ at \in Nat
    /\ closing \in {"no", "parting", "closing", "done"}
    /\ joined \subseteq Channels
    /\ faults \in 0..MaxFaults /\ calls \in 0..MaxCalls /\ posted \in 0..MaxMessages

\* Every chat message the server sends on a connection is yielded once, in order:
\* what was yielded and what is still to be read is all of it while the connection
\* lives, and a beginning of it when the connection has broken.
InOrder(f)     == \A i, j \in {k \in DOMAIN f : IsChat(f[k])} : i < j => f[i].id < f[j].id
Precedes(f, g) == \A n \in ChatIds(f), m \in ChatIds(g) : n < m

StreamIsWhole ==
    /\ \A k \in DOMAIN got : got[k] = first + k - 1
    /\ \E last \in 0..posted :
         /\ conn = "open" => last = posted
         /\ first + Len(got) <= last + 1
         /\ ChatIds(lines) \cup UNION {ChatIds(inbox[k]) : k \in DOMAIN inbox}
              = first + Len(got)..last
    /\ InOrder(lines) /\ \A k \in DOMAIN inbox : InOrder(inbox[k]) /\ Precedes(lines, inbox[k])
    /\ \A j, k \in DOMAIN inbox : j < k => Precedes(inbox[j], inbox[k])

\* While messages are read, the client is in all its channels, or is about to
\* join those that discovery found, and is in no other: after reconnections,
\* and whatever join, part and discovery did in between.  Unless part was called
\* during a round of joins, which it can make skip or repeat a channel.
SubscribedToAll ==
    pc \in Streaming /\ conn = "open" /\ ~parted =>
        /\ Range(channels) \subseteq joined \cup Range(pendingJoins)
        /\ joined \subseteq Range(channels)

\* When disconnect and the reader have ended, no connection is left open.  Unless
\* disconnect came during an attempt to connect.  (A connection that the reader
\* gave up on a frame that is not text stays open: nobody refers to it.)
DisconnectLeavesNothing ==
    pc = "ended" /\ closing = "done" /\ ~raced =>
        conn # "open" /\ "disconnect" \notin leaked

\* Discovery never fills the client beyond max_channels, whatever callers joined
\* between the LIST and its end.
DiscoveryRespectsMax ==
    [][ Len(pendingJoins') > 0 /\ pendingJoins' # pendingJoins
          => Cardinality(Range(channels')) <= MaxChannels ]_vars

\* Until it is stopped, the client always comes back: it is connected and in all
\* its channels again and again, those found by discovery included.
StaysSubscribed ==
    []<>(stop \/ parted \/ (conn = "open" /\ Range(channels) \subseteq joined))

\* Discovery goes on until the client is stopped: LISTs are sent and answered again
\* and again, after every reconnection and whatever callers do.  Unless a connection
\* ended with a LIST unanswered: _pending_list then stays set, and there is never
\* another.
DiscoveryGoesOn ==
    /\ []<>(stop \/ cutList \/ asked)
    /\ []<>(stop \/ cutList \/ ~asked)
=============================================================================
