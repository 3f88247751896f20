---------------------- MODULE OpenAICodexResponsesProofs ---------------------
(***************************************************************************)
(* OpenAICodexResponses, proved for every set of requests, inputs and      *)
(* transports, every number of retries and faults: a connection has one    *)
(* user and an idle one somebody to close it, nobody closes a connection   *)
(* that is in use, whatever a request waits for is on its way, the server  *)
(* answers the input of the caller, and done means that it has.            *)
(*                                                                         *)
(* The inductive invariant says how a request and its connection belong    *)
(* together (Users), which connections exist (Sockets), who will close     *)
(* them (Watched), whose connection the listeners of an abort close        *)
(* (Called) and what ends each wait (Reached, Opens, Answered). A step of  *)
(* one request is shown to keep them from what it does to that request and *)
(* its connection, stated by one lemma for each kind of step (...Does,     *)
(* ...Leaves); the lemmas ...Keeps... say which such steps keep a part of  *)
(* the invariant. A second invariant, TalkInv, says what was asked, read   *)
(* and remembered. A third, WaitInv, says what a request has got and what  *)
(* it still waits for, as far as the handling of the last message, which   *)
(* may close the events of the next request, lets it be told.              *)
(***************************************************************************)
EXTENDS OpenAICodexResponses, TLAPS

(* Before a request has a connection, while it opens one, over SSE.        *)
Early   == {"new", "acquiring"}
Opening == {"connecting", "adding", "rechecking", "opening", "inserting"}
Calling == {"attempting", "calling", "executing", "reading"}

(* The values of the parts of the state.                                   *)
Steps       == Early \cup Opening \cup Using \cup Calling \cup {"complete", "failed", "ended"}
Owner       == Requests \cup {NoOne}
Sent        == Inputs \cup {<<>>}
Channels    == Seq({"created", "done", "failed"})
Completions == {"open", "ok", "failed"}
Attempts    == 0..MaxRetries
Calls       == {"none", "active", "cancelled", "cut"}
Ends        == {"none", "done", "error", "aborted"}
Flags       == {"quiet", "set", "walking", "done"}
Heard       == SUBSET {"call", "socket"}
SocketIs    == {"none", "connecting", "open", "deaf", "gone"}
Opened      == {"no", "yes", "failed"}
Handling    == {"no", "completing", "closing"}
Kinds       == {"sse", "websocket", "cached", "auto"}
Requested   == [transport : Kinds, input : Sent, use : Owner, temporary : BOOLEAN,
                started : BOOLEAN, channel : Channels, closed : BOOLEAN,
                completion : Completions, responseId : BOOLEAN, attempt : Attempts,
                call : Calls]
Signalled   == [flag : Flags, listeners : Heard, calling : Heard]
Connected   == [socket : SocketIs, opened : Opened, closed : BOOLEAN, reader : Owner,
                sawCompletion : BOOLEAN, handling : Handling]
Continued   == [input : Sent, response : Owner]
Entered     == [busy : BOOLEAN, timer : BOOLEAN, task : BOOLEAN,
                continuation : Continued]

(* A request that is past the opening of its connection.                   *)
Begun(c) == pc[c] \notin Early \cup Opening

(* Every variable has its type.                                            *)
Types ==
  /\ pc \in [Requests -> Steps]
  /\ request \in [Requests -> Requested]
  /\ outcome \in [Requests -> Ends]
  /\ signal \in [Requests -> Signalled]
  /\ connection \in [Requests -> Connected]
  /\ cache \in Owner
  /\ entry \in [Requests -> Entered]

(* The connection of each request: its own, or one from the cache, which   *)
(* was opened by a request that is past its opening.                       *)
Uses ==
  \A r \in Requests :
    /\ pc[r] \in Early => request[r].use = NoOne /\ ~request[r].temporary
    /\ pc[r] \in Opening => request[r].use = r
    /\ pc[r] \in Using => request[r].use \in Requests
    /\ request[r].use \notin {NoOne, r} => Begun(request[r].use)
    /\ pc[r] \in Using /\ request[r].temporary => request[r].use = r
    /\ pc[r] \in Using /\ ~request[r].temporary => entry[request[r].use].busy
    /\ pc[r] \in Opening \cup Using /\ request[r].temporary =>
         cache # r /\ ~entry[r].timer /\ ~entry[r].task
    /\ pc[r] = "inserting" => ~request[r].temporary

(* Only a connection that was opened has an entry in use or a timer, and   *)
(* no entry has both.                                                      *)
Entries ==
  \A c \in Requests :
    /\ entry[c].busy \/ entry[c].timer \/ entry[c].task \/ cache = c => Begun(c)
    /\ entry[c].timer => ~entry[c].busy

(* Who uses which connection.                                              *)
Users == Uses /\ Entries /\ OneRequestPerConnection

(* A connection exists from the moment its request starts to open it, and  *)
(* one whose handshake failed is closed.                                   *)
Sockets ==
  \A c \in Requests :
    /\ connection[c].opened = "failed" => connection[c].closed
    /\ connection[c].opened # "no" => connection[c].socket # "none"
    /\ pc[c] \in Early \cup {"connecting"} => connection[c].socket = "none"
    /\ pc[c] \in Opening \ {"connecting"} => connection[c].socket # "none"
    /\ cache = c => connection[c].socket # "none"
    /\ pc[c] \in Using => connection[request[c].use].socket # "none"
    /\ connection[c].reader # NoOne => connection[c].socket # "none"

(* An open connection is used, about to be used, or has a timer or a task  *)
(* to close it; an entry that is in use has a user, or is closed already;  *)
(* and a request that went on over SSE left its connection closed.         *)
Watched ==
  /\ \A c \in Requests :
       \/ connection[c].socket \in {"none", "gone"} \/ connection[c].closed
       \/ entry[c].timer \/ entry[c].task
       \/ \E r \in Requests : request[r].use = c /\ pc[r] \in Opening \cup Using
  /\ \A c \in Requests : entry[c].busy =>
       connection[c].closed \/ \E r \in Requests : request[r].use = c /\ pc[r] \in Using
  /\ \A r \in Requests : pc[r] \in Calling =>
       request[r].use = NoOne \/ connection[request[r].use].closed

(* The listeners of an abort are called only once it is raised, the one of *)
(* the connection is on the list during the handshake only, and if it is   *)
(* about to be called, then it closes the connection that request s uses,  *)
(* or one that is closed.                                                  *)
WalkReaches(s) ==
  /\ signal[s].calling # {} => aborted(s)
  /\ "socket" \in signal[s].listeners => pc[s] \in {"rechecking", "opening"}
  /\ "socket" \in signal[s].calling =>
       \/ connection[s].closed
       \/ pc[s] \in {"rechecking", "opening", "inserting"} \cup Using /\ request[s].use = s

(* That holds of every request.                                            *)
Called == \A s \in Requests : WalkReaches(s)

(* Whoever waits for the handshake is on the list of his signal, or about to be called. *)
Reached ==
  \A s \in Requests :
    /\ pc[s] = "rechecking" =>
         "socket" \in signal[s].listeners \/ signal[s].flag \in {"walking", "done"}
    /\ pc[s] = "opening" =>
         \/ connection[s].closed
         \/ signal[s].flag \in {"quiet", "set"} /\ "socket" \in signal[s].listeners
         \/ signal[s].flag = "walking" /\ "socket" \in signal[s].calling

(* The handshake is over when the socket is past it, and for whoever uses it. *)
Opens ==
  /\ \A c \in Requests :
       /\ connection[c].opened = "no" <=> connection[c].socket \in {"none", "connecting"}
       /\ connection[c].socket = "gone" => connection[c].closed
       /\ cache = c \/ pc[c] = "inserting" => connection[c].opened # "no"
  /\ \A r \in Requests : pc[r] \in Using => connection[request[r].use].opened # "no"

(* A request that reads its events, and one to which none was sent that    *)
(* ends its reading.                                                       *)
Reading == {"checking", "receiving"}
Unsettled(r) ==
  /\ ~request[r].closed
  /\ \A i \in 1..Len(request[r].channel) : request[r].channel[i] = "created"

(* A request whose events are still to come is the one its connection is   *)
(* answering, unless the server has closed its side.                       *)
Answered ==
  /\ asked = [c \in Requests |-> asked[c]]
  /\ \A c \in Requests : DOMAIN asked[c] = {"by", "context", "created"}
  /\ \A r \in Requests : pc[r] \in Reading /\ Unsettled(r) =>
       asked[request[r].use].by = r \/ connection[request[r].use].socket = "deaf"

(* A stream has its terminal event when its request has ended.             *)
Outcomes ==
  \A r \in Requests : (outcome[r] = "none") = (pc[r] # "ended")

(* The inductive invariant.                                                *)
IInv ==
  /\ Types /\ Users /\ Sockets /\ Watched /\ Called /\ Outcomes
  /\ Reached /\ Opens /\ Answered

(* What the steps assign is of the types.                                  *)
LEMMA StepLiterals ==
  \A p \in Early \cup Opening \cup Using \cup Calling \cup {"complete", "failed", "ended"} :
    p \in Steps
BY DEF Steps

(* The values that actions assign are of the types above.                  *)
LEMMA Literals ==
  /\ Requests \subseteq Owner /\ NoOne \in Owner
  /\ Inputs \subseteq Sent /\ <<>> \in Sent
  /\ "open" \in Completions /\ "ok" \in Completions /\ "failed" \in Completions
  /\ "none" \in Calls /\ "active" \in Calls /\ "cancelled" \in Calls /\ "cut" \in Calls
  /\ "done" \in Ends /\ "error" \in Ends /\ "aborted" \in Ends
  /\ "quiet" \in Flags /\ "set" \in Flags /\ "walking" \in Flags /\ "done" \in Flags
  /\ "connecting" \in SocketIs /\ "open" \in SocketIs /\ "deaf" \in SocketIs
  /\ "gone" \in SocketIs
  /\ "yes" \in Opened /\ "failed" \in Opened
  /\ "no" \in Handling /\ "completing" \in Handling /\ "closing" \in Handling
BY DEF Owner, Sent, Completions, Calls, Ends, Flags, SocketIs, Opened, Handling

(* So are the sets of listeners,                                           *)
LEMMA Listening ==
  /\ {} \in Heard /\ {"call"} \in Heard
  /\ \A l \in Heard : l \cup {"socket"} \in Heard
  /\ \A l \in Heard, x \in {"call", "socket"} : l \ {x} \in Heard
BY DEF Heard

(* the events that wait in a channel,                                      *)
LEMMA ChannelTypes ==
  /\ <<>> \in Channels
  /\ \A s \in Channels : s # <<>> => Tail(s) \in Channels
  /\ \A s \in Channels, e \in {"created", "done", "failed"} : Append(s, e) \in Channels
BY DEF Channels

(* and the attempts.                                                       *)
LEMMA AttemptTypes ==
  /\ 0 \in Attempts
  /\ \A n \in Attempts : n < MaxRetries => n + 1 \in Attempts
BY CodexAssumption DEF Attempts, CodexAssumption

(* A connection that is closed for its user has no reader any more;        *)
(* nothing else of it, and no other connection, changes.                   *)
LEMMA ClosedTypes ==
  ASSUME Types, NEW c \in Requests
  PROVE  /\ Closed(c) \in [Requests -> Connected]
         /\ Closed(c)[c].closed /\ Closed(c)[c].reader = NoOne
         /\ Closed(c)[c].socket = connection[c].socket
         /\ Closed(c)[c].opened = connection[c].opened
         /\ \A d \in Requests \ {c} : Closed(c)[d] = connection[d]
BY Literals DEF Closed, Connected, Types

(* A connection that is given up is closed, and nobody gets it again.      *)
LEMMA GiveUpCloses ==
  ASSUME Types, NEW r \in Requests, NEW c \in Requests, c = request[r].use, GiveUp(r)
  PROVE  /\ connection' = Closed(c)
         /\ entry' \in [Requests -> Entered]
         /\ entry'[c].busy = entry[c].busy /\ entry'[c].task = entry[c].task
         /\ ~entry'[c].timer
         /\ \A d \in Requests \ {c} : entry'[d] = entry[d]
         /\ cache' \in Owner /\ cache' \in {cache, NoOne} /\ cache' # c
         /\ pc' \in [Requests -> Steps]
         /\ pc'[r] \in {"attempting", "failed"}
         /\ \A s \in Requests \ {r} : pc'[s] = pc[s]
<1>1. connection' = Closed(c)
  BY DEF GiveUp
<1>2. /\ entry' = [entry EXCEPT ![c].timer = FALSE, ![c].continuation = NoContinuation]
      /\ NoContinuation \in Continued
  BY Literals DEF GiveUp, NoContinuation, Continued
<1>3. entry' \in [Requests -> Entered]
  <2>1. [entry[c] EXCEPT !.timer = FALSE, !.continuation = NoContinuation] \in Entered
    BY <1>2, SMTT(30), ZenonT(60) DEF Types, Entered
  <2>2. entry' = [entry EXCEPT ![c] = [entry[c] EXCEPT !.timer = FALSE,
                                                       !.continuation = NoContinuation]]
    BY <1>2
  <2>3. QED
    BY <2>1, <2>2, Zenon DEF Types
<1>4. /\ entry'[c].busy = entry[c].busy /\ entry'[c].task = entry[c].task
      /\ ~entry'[c].timer
      /\ \A d \in Requests \ {c} : entry'[d] = entry[d]
  BY <1>2 DEF Types, Entered
<1>5. cache' \in Owner /\ cache' \in {cache, NoOne} /\ cache' # c
  BY CodexAssumption, Literals DEF GiveUp, WithoutEntry, CodexAssumption, Types
<1>6. /\ pc' \in [Requests -> Steps]
      /\ pc'[r] \in {"attempting", "failed"}
      /\ \A s \in Requests \ {r} : pc'[s] = pc[s]
  BY StepLiterals DEF GiveUp, Goto, Calling, Types
<1>7. QED
  BY <1>1, <1>3, <1>4, <1>5, <1>6

(* A connection that is released is closed, or watched by its timer.       *)
LEMMA ReleaseWatches ==
  ASSUME Types, NEW r \in Requests, NEW c \in Requests, c = request[r].use,
         NEW k \in Continued, Release(r, k)
  PROVE  /\ connection' \in [Requests -> Connected]
         /\ connection'[c].reader = NoOne
         /\ connection'[c].socket = connection[c].socket
         /\ connection'[c].opened = connection[c].opened
         /\ \A d \in Requests \ {c} : connection'[d] = connection[d] /\ entry'[d] = entry[d]
         /\ entry' \in [Requests -> Entered]
         /\ entry'[c].task = entry[c].task
         /\ cache' \in Owner /\ cache' \in {cache, NoOne}
         /\ \/ /\ connection'[c].closed
               /\ ~entry'[c].timer /\ entry'[c].busy = entry[c].busy
               /\ cache' # c
            \/ /\ ~request[r].temporary
               /\ connection'[c].closed = connection[c].closed /\ ~connection[c].closed
               /\ entry'[c].timer /\ ~entry'[c].busy
               /\ cache' = cache
<1>1. CASE request[r].temporary \/ connection[c].closed
  <2>1. /\ connection' = Closed(c)
        /\ entry' = [entry EXCEPT ![c].timer = FALSE, ![c].continuation = k]
        /\ cache' = WithoutEntry(c)
    BY <1>1 DEF Release
  <2>2. entry' \in [Requests -> Entered]
    <3>1. [entry[c] EXCEPT !.timer = FALSE, !.continuation = k] \in Entered
      BY SMTT(30), ZenonT(60) DEF Types, Entered
    <3>2. entry' = [entry EXCEPT ![c] = [entry[c] EXCEPT !.timer = FALSE, !.continuation = k]]
      BY <2>1
    <3>3. QED
      BY <3>1, <3>2, Zenon DEF Types
  <2>3. /\ entry'[c].busy = entry[c].busy /\ entry'[c].task = entry[c].task
        /\ ~entry'[c].timer
        /\ \A d \in Requests \ {c} : entry'[d] = entry[d]
    <3>1. entry'[c] = [entry[c] EXCEPT !.timer = FALSE, !.continuation = k]
      BY <2>1 DEF Types
    <3>2. entry[c] \in Entered
      BY DEF Types
    <3>3. \A d \in Requests \ {c} : entry'[d] = entry[d]
      BY <2>1 DEF Types
    <3>4. QED
      BY <3>1, <3>2, <3>3 DEF Entered
  <2>4. cache' \in Owner /\ cache' \in {cache, NoOne} /\ cache' # c
    BY <2>1, CodexAssumption, Literals DEF WithoutEntry, CodexAssumption, Types
  <2>5. /\ connection' \in [Requests -> Connected]
        /\ connection'[c].closed /\ connection'[c].reader = NoOne
        /\ connection'[c].socket = connection[c].socket
        /\ connection'[c].opened = connection[c].opened
        /\ \A d \in Requests \ {c} : connection'[d] = connection[d]
    BY <2>1, ClosedTypes, Zenon
  <2>6. QED
    BY <2>2, <2>3, <2>4, <2>5, Zenon
<1>2. CASE ~(request[r].temporary \/ connection[c].closed)
  <2>1. /\ connection' = [connection EXCEPT ![c].reader = NoOne]
        /\ entry' = [entry EXCEPT ![c].busy = FALSE, ![c].timer = TRUE, ![c].continuation = k]
        /\ cache' = cache
    BY <1>2 DEF Release
  <2>2. /\ connection' \in [Requests -> Connected]
        /\ connection'[c].reader = NoOne
        /\ connection'[c].socket = connection[c].socket
        /\ connection'[c].opened = connection[c].opened
        /\ connection'[c].closed = connection[c].closed
        /\ \A d \in Requests \ {c} : connection'[d] = connection[d]
    BY <2>1, Literals, SMTT(30), ZenonT(60) DEF Types, Connected
  <2>3. /\ entry' \in [Requests -> Entered]
        /\ entry'[c].task = entry[c].task
        /\ entry'[c].timer /\ ~entry'[c].busy
        /\ \A d \in Requests \ {c} : entry'[d] = entry[d]
    <3>1. entry[c] \in Entered
      BY DEF Types
    <3>2. /\ entry'[c] = [entry[c] EXCEPT !.busy = FALSE, !.timer = TRUE,
                                           !.continuation = k]
          /\ \A d \in Requests \ {c} : entry'[d] = entry[d]
      BY <2>1 DEF Types
    <3>3. entry'[c] \in Entered
      BY <3>1, <3>2 DEF Entered
    <3>4. entry'[c].task = entry[c].task /\ entry'[c].timer /\ ~entry'[c].busy
      BY <3>1, <3>2 DEF Entered
    <3>5. entry' = [d \in Requests |-> entry'[d]]
      BY <2>1 DEF Types
    <3>6. \A d \in Requests : entry'[d] \in Entered
      BY <3>2, <3>3 DEF Types
    <3>7. QED
      BY <3>2, <3>4, <3>5, <3>6
  <2>4. QED
    BY <1>2, <2>1, <2>2, <2>3 DEF Types
<1>3. QED
  BY <1>1, <1>2

(* What the steps do to connections, entry by entry.                       *)
LEMMA AcquireDoes ==
  ASSUME Types, NEW r \in Requests, Acquire(r)
  PROVE  /\ request' \in [Requests -> Requested] /\ entry' \in [Requests -> Entered]
         /\ cache' \in Owner
         /\ pc[r] = "acquiring" /\ \A s \in Requests \ {r} : pc'[s] = pc[s]
         /\ \A s \in Requests \ {r} : request'[s] = request[s]
         /\ \/ /\ cache \in Requests /\ cache' = cache
               /\ ~entry[cache].busy /\ ~connection[cache].closed
               /\ entry'[cache].busy /\ ~entry'[cache].timer
               /\ entry'[cache].task = entry[cache].task
               /\ \A d \in Requests \ {cache} : entry'[d] = entry[d]
               /\ request'[r].use = cache /\ request'[r].temporary = request[r].temporary
               /\ pc'[r] = "sending"
            \/ /\ pc'[r] = "connecting" /\ request'[r].use = r
               /\ \/ /\ cache \in Requests /\ cache' = NoOne
                     /\ ~entry[cache].busy /\ connection[cache].closed
                     /\ ~entry'[cache].busy /\ ~entry'[cache].timer
                     /\ entry'[cache].task = entry[cache].task
                     /\ \A d \in Requests \ {cache} : entry'[d] = entry[d]
                     /\ ~request'[r].temporary
                  \/ /\ cache' = cache /\ entry' = entry
                     /\ request'[r].temporary => cache \in Requests /\ entry[cache].busy
<1>1. cache # NoOne => cache \in Requests
  BY DEF Types, Owner
<1>2. pc[r] = "acquiring"
  BY DEF Acquire
<1>3. CASE Reusable(cache)
  <2>1. /\ entry' = [entry EXCEPT ![cache].busy = TRUE, ![cache].timer = FALSE]
        /\ request' = [request EXCEPT ![r].use = cache]
        /\ pc' = [pc EXCEPT ![r] = "sending"]
        /\ cache' = cache
    BY <1>3 DEF Acquire, Goto
  <2>2. cache \in Requests /\ ~entry[cache].busy /\ ~connection[cache].closed
    BY <1>1, <1>3 DEF Reusable
  <2>3. /\ entry' \in [Requests -> Entered]
        /\ entry'[cache].busy /\ ~entry'[cache].timer
        /\ entry'[cache].task = entry[cache].task
        /\ \A d \in Requests \ {cache} : entry'[d] = entry[d]
    BY <2>1, <2>2 DEF Types, Entered
  <2>4. /\ request' \in [Requests -> Requested]
        /\ request'[r].use = cache /\ request'[r].temporary = request[r].temporary
        /\ \A s \in Requests \ {r} : request'[s] = request[s]
    <3>1. request'[r] = [request[r] EXCEPT !.use = cache] /\ request[r] \in Requested
      BY <2>1 DEF Types
    <3>2. \A s \in Requests \ {r} : request'[s] = request[s]
      BY <2>1 DEF Types
    <3>3. request'[r] \in Requested
      BY <2>2, <3>1, Literals DEF Requested
    <3>4. request'[r].use = cache /\ request'[r].temporary = request[r].temporary
      BY <3>1 DEF Requested
    <3>5. request' \in [Requests -> Requested]
      BY <2>1, <3>1, <3>3 DEF Types
    <3>6. QED
      BY <3>2, <3>4, <3>5
  <2>5. pc'[r] = "sending" /\ \A s \in Requests \ {r} : pc'[s] = pc[s]
    BY <2>1 DEF Types
  <2>6. QED
    BY <1>2, <2>1, <2>2, <2>3, <2>4, <2>5 DEF Types
<1>4. CASE ~Reusable(cache)
  <2>1. PICK t \in BOOLEAN : t = (cache # NoOne /\ entry[cache].busy)
    OBVIOUS
  <2>2. request' = [request EXCEPT ![r].use = r, ![r].temporary = t]
    BY <1>4, <2>1 DEF Acquire
  <2>3. /\ request' \in [Requests -> Requested]
        /\ request'[r].use = r /\ request'[r].temporary = t
        /\ \A s \in Requests \ {r} : request'[s] = request[s]
    <3>1. request'[r] = [request[r] EXCEPT !.use = r, !.temporary = t] /\ request[r] \in Requested
      BY <2>2 DEF Types
    <3>2. \A s \in Requests \ {r} : request'[s] = request[s]
      BY <2>2 DEF Types
    <3>3. request'[r] \in Requested
      BY <2>1, <3>1, Literals DEF Requested
    <3>4. request'[r].use = r /\ request'[r].temporary = t
      BY <3>1 DEF Requested
    <3>5. request' \in [Requests -> Requested]
      BY <2>2, <3>1, <3>3 DEF Types
    <3>6. QED
      BY <3>2, <3>4, <3>5
  <2>4. pc'[r] = "connecting" /\ \A s \in Requests \ {r} : pc'[s] = pc[s]
    BY <1>4 DEF Acquire, Goto, Types
  <2>5. CASE cache # NoOne /\ ~entry[cache].busy
    <3>1. entry' = [entry EXCEPT ![cache].timer = FALSE] /\ cache' = NoOne
      BY <1>4, <2>5 DEF Acquire
    <3>2. /\ entry' \in [Requests -> Entered]
          /\ ~entry'[cache].busy /\ ~entry'[cache].timer
          /\ entry'[cache].task = entry[cache].task
          /\ \A d \in Requests \ {cache} : entry'[d] = entry[d]
      BY <1>1, <2>5, <3>1 DEF Types, Entered
    <3>3. connection[cache].closed
      BY <1>4, <2>5 DEF Reusable
    <3>4. ~t
      BY <2>1, <2>5, Zenon
    <3>5. QED
      BY <1>1, <1>2, <2>3, <2>4, <2>5, <3>1, <3>2, <3>3, <3>4, Literals
  <2>6. CASE ~(cache # NoOne /\ ~entry[cache].busy)
    <3>1. entry' = entry /\ cache' = cache
      BY <1>4, <2>6 DEF Acquire
    <3>2. t => cache \in Requests /\ entry[cache].busy
      BY <1>1, <2>1, Zenon
    <3>3. QED
      BY <1>2, <2>3, <2>4, <3>1, <3>2 DEF Types
  <2>7. QED
    BY <2>5, <2>6
<1>5. QED
  BY <1>3, <1>4

(* A request starts the handshake of its own connection.                   *)
LEMMA ConnectDoes ==
  ASSUME Types, NEW r \in Requests, Connect(r)
  PROVE  /\ connection' \in [Requests -> Connected]
         /\ connection'[r].socket = "connecting" /\ connection'[r].closed = aborted(r)
         /\ connection'[r].opened = connection[r].opened
         /\ connection'[r].reader = connection[r].reader
         /\ \A d \in Requests \ {r} : connection'[d] = connection[d]
<1>1. PICK b \in BOOLEAN : b = aborted(r)
  BY DEF aborted
<1>2. connection' = [connection EXCEPT ![r].socket = "connecting", ![r].closed = b]
  BY <1>1 DEF Connect
<1>3. /\ connection' \in [Requests -> Connected]
      /\ connection'[r].socket = "connecting" /\ connection'[r].closed = b
      /\ connection'[r].opened = connection[r].opened
      /\ connection'[r].reader = connection[r].reader
      /\ \A d \in Requests \ {r} : connection'[d] = connection[d]
  BY <1>2, Literals DEF Types, Connected
<1>4. QED
  BY <1>1, <1>3, Zenon

(* close() changes nothing but the flag of one connection.                 *)
LEMMA CloseTypes ==
  ASSUME Types, NEW c \in Requests,
         connection' = [connection EXCEPT ![c].closed = TRUE]
  PROVE  /\ connection' \in [Requests -> Connected]
         /\ connection'[c].closed
         /\ connection'[c].socket = connection[c].socket
         /\ connection'[c].opened = connection[c].opened
         /\ connection'[c].reader = connection[c].reader
         /\ \A d \in Requests \ {c} : connection'[d] = connection[d]
BY DEF Types, Connected

(* A listener is taken off the list.                                       *)
LEMMA RemoveTypes ==
  ASSUME Types, NEW r \in Requests, NEW l \in {"call", "socket"}, RemoveListener(r, l)
  PROVE  /\ signal' \in [Requests -> Signalled]
         /\ signal'[r].listeners = signal[r].listeners \ {l}
         /\ signal'[r].flag = signal[r].flag /\ signal'[r].calling = signal[r].calling
         /\ \A s \in Requests \ {r} : signal'[s] = signal[s]
<1>1. signal[r].listeners \ {l} \in Heard
  BY Listening DEF Types, Signalled
<1>2. PICK h \in Heard : h = signal[r].listeners \ {l}
  BY <1>1
<1>3. signal' = [signal EXCEPT ![r].listeners = h]
  BY <1>2 DEF RemoveListener
<1>4. QED
  BY <1>2, <1>3 DEF Types, Signalled

(* The entry that is put into the cache is in use.                         *)
LEMMA InsertDoes ==
  ASSUME Types, NEW r \in Requests, Insert(r)
  PROVE  /\ entry' \in [Requests -> Entered]
         /\ entry'[r].busy
         /\ entry'[r].timer = entry[r].timer /\ entry'[r].task = entry[r].task
         /\ \A d \in Requests \ {r} : entry'[d] = entry[d]
BY DEF Types, Entered, Insert

(* A request that sends becomes the reader of its connection.              *)
LEMMA SendDoes ==
  ASSUME Types, NEW r \in Requests, NEW c \in Requests, c = request[r].use,
         Send(r), ~connection[c].closed
  PROVE  /\ request' \in [Requests -> Requested]
         /\ request'[r].use = c /\ request'[r].temporary = request[r].temporary
         /\ \A s \in Requests \ {r} : request'[s] = request[s]
         /\ connection' \in [Requests -> Connected]
         /\ connection'[c].reader = r
         /\ connection'[c].socket = connection[c].socket
         /\ connection'[c].opened = connection[c].opened
         /\ connection'[c].closed = connection[c].closed
         /\ entry' \in [Requests -> Entered]
         /\ entry'[c].busy = entry[c].busy /\ entry'[c].timer = entry[c].timer
         /\ entry'[c].task = entry[c].task
         /\ \A d \in Requests \ {c} : connection'[d] = connection[d] /\ entry'[d] = entry[d]
         /\ cache' = cache /\ pc' = [pc EXCEPT ![r] = "checking"]
<1>1. PICK new \in Inputs :
        /\ request' = [request EXCEPT ![r].started = TRUE, ![r].input = new]
        /\ connection' = [connection EXCEPT ![c].reader = r, ![c].sawCompletion = FALSE]
        /\ entry' = IF IsCached(r) /\ ~Continues(new, entry[c].continuation)
                    THEN [entry EXCEPT ![c].continuation = NoContinuation] ELSE entry
        /\ cache' = cache /\ pc' = [pc EXCEPT ![r] = "checking"]
  BY DEF Send, Goto
<1>2. /\ request' \in [Requests -> Requested]
      /\ request'[r].use = c /\ request'[r].temporary = request[r].temporary
      /\ \A s \in Requests \ {r} : request'[s] = request[s]
  <2>1. request'[r] = [request[r] EXCEPT !.started = TRUE, !.input = new]
    BY <1>1 DEF Types
  <2>2. request[r] \in Requested /\ new \in Sent
    BY Literals DEF Types
  <2>3. request'[r] \in Requested
    BY <2>1, <2>2 DEF Requested
  <2>4. request'[r].use = request[r].use /\ request'[r].temporary = request[r].temporary
    BY <2>1, <2>2 DEF Requested
  <2>5. \A s \in Requests \ {r} : request'[s] = request[s]
    BY <1>1 DEF Types
  <2>6. request' \in [Requests -> Requested]
    BY <1>1, <2>1, <2>3 DEF Types
  <2>7. QED
    BY <2>4, <2>5, <2>6
<1>3. /\ connection' \in [Requests -> Connected]
      /\ connection'[c].reader = r
      /\ connection'[c].socket = connection[c].socket
      /\ connection'[c].opened = connection[c].opened
      /\ connection'[c].closed = connection[c].closed
      /\ \A d \in Requests \ {c} : connection'[d] = connection[d]
  <2>1. connection'[c] = [connection[c] EXCEPT !.reader = r, !.sawCompletion = FALSE]
    BY <1>1 DEF Types
  <2>2. connection[c] \in Connected /\ r \in Owner
    BY Literals DEF Types
  <2>3. connection'[c] \in Connected
    BY <2>1, <2>2 DEF Connected
  <2>4. /\ connection'[c].reader = r
        /\ connection'[c].socket = connection[c].socket
        /\ connection'[c].opened = connection[c].opened
        /\ connection'[c].closed = connection[c].closed
    BY <2>1, <2>2 DEF Connected
  <2>5. \A d \in Requests \ {c} : connection'[d] = connection[d]
    BY <1>1 DEF Types
  <2>6. connection' \in [Requests -> Connected]
    BY <1>1, <2>1, <2>3 DEF Types
  <2>7. QED
    BY <2>4, <2>5, <2>6
<1>4. \/ entry' = entry
      \/ entry' = [entry EXCEPT ![c].continuation = NoContinuation]
  BY <1>1
<1>5. NoContinuation \in Continued
  BY Literals DEF NoContinuation, Continued
<1>6. entry' \in [Requests -> Entered]
  <2>1. entry[c] \in Entered /\ entry \in [Requests -> Entered]
    BY DEF Types
  <2>2. [entry[c] EXCEPT !.continuation = NoContinuation] \in Entered
    BY <1>5, <2>1 DEF Entered
  <2>3. \/ entry' = entry
        \/ entry' = [entry EXCEPT ![c] = [entry[c] EXCEPT !.continuation = NoContinuation]]
    BY <1>4
  <2>4. QED
    BY <2>1, <2>2, <2>3
<1>7. /\ entry'[c].busy = entry[c].busy /\ entry'[c].timer = entry[c].timer
      /\ entry'[c].task = entry[c].task
      /\ \A d \in Requests \ {c} : entry'[d] = entry[d]
  BY <1>4 DEF Types, Entered
<1>8. QED
  BY <1>1, <1>2, <1>3, <1>6, <1>7

(* The timer and its task change nothing but themselves of an entry.       *)
LEMMA TimerDoes ==
  ASSUME Types, NEW c \in Requests, TimerFires(c) \/ TimerTask(c)
  PROVE  /\ entry' \in [Requests -> Entered]
         /\ entry'[c].busy = entry[c].busy
         /\ \A d \in Requests \ {c} : entry'[d] = entry[d]
         /\ TimerFires(c) => entry'[c].task /\ ~entry'[c].timer
         /\ TimerTask(c) => ~entry'[c].task /\ entry'[c].timer = entry[c].timer
<1>1. CASE TimerFires(c)
  <2>1. entry' = [entry EXCEPT ![c].timer = FALSE, ![c].task = TRUE] /\ entry[c].timer
    BY <1>1 DEF TimerFires
  <2>2. ~TimerTask(c) \/ (~entry'[c].task /\ entry'[c].timer = entry[c].timer)
    BY DEF TimerTask, Types, Entered
  <2>3. QED
    BY <2>1, <2>2 DEF Types, Entered
<1>2. CASE TimerTask(c)
  <2>1. entry' = [entry EXCEPT ![c].task = FALSE]
    BY <1>2 DEF TimerTask
  <2>2. ~TimerFires(c) \/ (entry'[c].task /\ ~entry'[c].timer)
    BY DEF TimerFires, Types, Entered
  <2>3. QED
    BY <2>1, <2>2 DEF Types, Entered
<1>3. QED
  BY <1>1, <1>2

(* What a connection tells the request r that reads it becomes q, which    *)
(* goes on using the connection, has what it sent and knows what it knew.  *)
Tells(q, r) ==
  /\ q \in [Requests -> Requested]
  /\ q[r].use = request[r].use /\ q[r].temporary = request[r].temporary
  /\ q[r].input = request[r].input /\ q[r].call = request[r].call
  /\ q[r].responseId = request[r].responseId
  /\ \A s \in Requests \ {r} : q[s] = request[s]

(* To close the events of a request changes nothing else.                  *)
LEMMA CloseEventsTypes ==
  ASSUME NEW p \in [Requests -> Requested], NEW r \in Requests,
         NEW q, q = [p EXCEPT ![r].closed = TRUE]
  PROVE  /\ q \in [Requests -> Requested] /\ q[r].closed
         /\ q[r].use = p[r].use /\ q[r].temporary = p[r].temporary
         /\ q[r].input = p[r].input /\ q[r].call = p[r].call
         /\ q[r].responseId = p[r].responseId
         /\ q[r].channel = p[r].channel /\ q[r].completion = p[r].completion
         /\ \A s \in Requests \ {r} : q[s] = p[s]
<1>1. PICK x : x = [p[r] EXCEPT !.closed = TRUE]
  OBVIOUS
<1>2. /\ x \in Requested /\ x.closed
      /\ x.use = p[r].use /\ x.temporary = p[r].temporary
      /\ x.input = p[r].input /\ x.call = p[r].call
      /\ x.responseId = p[r].responseId
      /\ x.channel = p[r].channel /\ x.completion = p[r].completion
  BY <1>1 DEF Requested
<1>3. q = [p EXCEPT ![r] = x]
  BY <1>1
<1>4. q \in [Requests -> Requested] /\ q[r] = x /\ \A s \in Requests \ {r} : q[s] = p[s]
  BY <1>2, <1>3
<1>5. QED
  BY <1>2, <1>4

(* A completion is settled once,                                           *)
LEMMA CompletionSettledDoes ==
  ASSUME Types, NEW r \in Requests, NEW how \in Completions,
         NEW q, q = CompletionSettled(request, r, how)
  PROVE  /\ Tells(q, r)
         /\ q[r].channel = request[r].channel /\ q[r].closed = request[r].closed
         /\ q[r].completion =
              IF request[r].completion = "open" THEN how ELSE request[r].completion
<1>1. CASE request[r].completion # "open"
  BY <1>1 DEF CompletionSettled, Tells, Types
<1>2. CASE request[r].completion = "open"
  <2>1. q = [request EXCEPT ![r].completion = how]
    BY <1>2, CodexAssumption DEF CompletionSettled, CodexAssumption
  <2>2. QED
    BY <1>2, <2>1 DEF Tells, Types, Requested
<1>3. QED
  BY <1>1, <1>2

(* the events are closed,                                                  *)
LEMMA EventsClosedDoes ==
  ASSUME Types, NEW r \in Requests, NEW q, q = EventsClosed(request, r)
  PROVE  /\ Tells(q, r)
         /\ q[r].channel = request[r].channel /\ q[r].closed
         /\ q[r].completion = request[r].completion
<1>1. q = [request EXCEPT ![r].closed = TRUE]
  BY CodexAssumption DEF EventsClosed, CodexAssumption
<1>2. request \in [Requests -> Requested]
  BY DEF Types
<1>3. /\ q \in [Requests -> Requested] /\ q[r].closed
      /\ q[r].use = request[r].use /\ q[r].temporary = request[r].temporary
      /\ q[r].input = request[r].input /\ q[r].call = request[r].call
      /\ q[r].responseId = request[r].responseId
      /\ q[r].channel = request[r].channel /\ q[r].completion = request[r].completion
      /\ \A s \in Requests \ {r} : q[s] = request[s]
  BY <1>1, <1>2, CloseEventsTypes
<1>4. QED
  BY <1>3 DEF Tells

(* both at once when the connection is over,                               *)
LEMMA CompletedDoes ==
  ASSUME Types, NEW r \in Requests, NEW how \in Completions,
         NEW q, q = Completed(request, r, how)
  PROVE  /\ Tells(q, r)
         /\ q[r].channel = request[r].channel /\ q[r].closed
         /\ q[r].completion =
              IF request[r].completion = "open" THEN how ELSE request[r].completion
<1> DEFINE p == CompletionSettled(request, r, how)
<1>1. /\ Tells(p, r) /\ p[r].channel = request[r].channel
      /\ p[r].completion =
           IF request[r].completion = "open" THEN how ELSE request[r].completion
  BY CompletionSettledDoes
<1>2. q = EventsClosed(p, r)
  BY DEF Completed
<1> HIDE DEF p
<1>3. q = [p EXCEPT ![r].closed = TRUE]
  BY <1>2, CodexAssumption DEF EventsClosed, CodexAssumption
<1>4. p \in [Requests -> Requested]
  BY <1>1 DEF Tells
<1>5. /\ q \in [Requests -> Requested] /\ q[r].closed
      /\ q[r].use = p[r].use /\ q[r].temporary = p[r].temporary
      /\ q[r].input = p[r].input /\ q[r].call = p[r].call
      /\ q[r].responseId = p[r].responseId
      /\ q[r].channel = p[r].channel /\ q[r].completion = p[r].completion
      /\ \A s \in Requests \ {r} : q[s] = p[s]
  BY <1>3, <1>4, CloseEventsTypes
<1>6. QED
  BY <1>1, <1>5 DEF Tells

(* and an event is sent unless the events are closed.                      *)
LEMMA DeliveredDoes ==
  ASSUME Types, NEW c \in Requests, NEW r \in Requests, r = connection[c].reader,
         NEW e \in {"created", "done", "failed"}, NEW q, q = Delivered(c, e)
  PROVE  /\ Tells(q, r)
         /\ q[r].closed = request[r].closed /\ q[r].completion = request[r].completion
         /\ q[r].channel = IF request[r].closed THEN request[r].channel
                           ELSE Append(request[r].channel, e)
<1>1. CASE request[r].closed
  BY <1>1 DEF Delivered, Tells, Types
<1>2. CASE ~request[r].closed
  <2>1. PICK ch \in Channels : ch = Append(request[r].channel, e)
    BY ChannelTypes DEF Types, Requested
  <2>2. q = [request EXCEPT ![r].channel = ch]
    BY <1>2, <2>1 DEF Delivered, Types
  <2>3. /\ q \in [Requests -> Requested]
        /\ q[r].use = request[r].use /\ q[r].temporary = request[r].temporary
        /\ q[r].input = request[r].input /\ q[r].call = request[r].call
        /\ q[r].responseId = request[r].responseId
        /\ q[r].closed = request[r].closed /\ q[r].completion = request[r].completion
        /\ q[r].channel = ch
        /\ \A s \in Requests \ {r} : q[s] = request[s]
    BY <2>2 DEF Types, Requested
  <2>4. QED
    BY <1>2, <2>1, <2>3 DEF Tells
<1>3. QED
  BY <1>1, <1>2

(* The steps of a socket, of its reader thread and of the server.          *)
SocketStep(c) ==
  \/ onOpen(c) \/ ServerCloses(c) \/ onMessage(c) \/ CompleteRequest(c) \/ CloseEvents(c)
  \/ onClosed(c) \/ onFailure(c)

(* The handling of a message leaves its connection as it is.               *)
LEMMA HandlingDoes ==
  ASSUME Types, NEW c \in Requests, onMessage(c) \/ CompleteRequest(c) \/ CloseEvents(c)
  PROVE  /\ connection' \in [Requests -> Connected]
         /\ connection'[c].socket = connection[c].socket
         /\ connection'[c].opened = connection[c].opened
         /\ connection'[c].closed = connection[c].closed
         /\ connection'[c].reader = connection[c].reader
         /\ \A d \in Requests \ {c} : connection'[d] = connection[d]
         /\ UNCHANGED <<pc, cache, entry, signal, outcome>>
<1>1. \/ connection' = connection
      \/ connection' = [connection EXCEPT ![c].sawCompletion = TRUE, ![c].handling = "completing"]
      \/ connection' = [connection EXCEPT ![c].handling = "closing"]
      \/ connection' = [connection EXCEPT ![c].handling = "no"]
  BY DEF onMessage, CompleteRequest, CloseEvents
<1>2. UNCHANGED <<pc, cache, entry, signal, outcome>>
  BY DEF onMessage, CompleteRequest, CloseEvents
<1>3. CASE connection' = connection
  BY <1>2, <1>3 DEF Types
<1>4. CASE connection' =
             [connection EXCEPT ![c].sawCompletion = TRUE, ![c].handling = "completing"]
  BY <1>2, <1>4, Literals DEF Types, Connected
<1>5. CASE connection' = [connection EXCEPT ![c].handling = "closing"]
  BY <1>2, <1>5, Literals DEF Types, Connected
<1>6. CASE connection' = [connection EXCEPT ![c].handling = "no"]
  BY <1>2, <1>6, Literals DEF Types, Connected
<1>7. QED
  BY <1>1, <1>3, <1>4, <1>5, <1>6

(* The socket's own steps leave the connection to whoever has it.          *)
LEMMA SocketDoes ==
  ASSUME Types, NEW c \in Requests, SocketStep(c)
  PROVE  /\ connection' \in [Requests -> Connected]
         /\ connection[c].socket # "none" \/ connection'[c].socket = "none"
         /\ connection'[c].socket # "none" \/ connection[c].socket = "none"
         /\ connection[c].closed => connection'[c].closed
         /\ connection'[c].closed => connection[c].closed \/ connection'[c].socket = "gone"
         /\ connection'[c].opened = "failed" =>
              connection[c].opened = "failed" \/ connection'[c].closed
         /\ connection'[c].opened # "no" =>
              connection[c].opened # "no" \/ connection'[c].socket # "none"
         /\ connection[c].socket = "gone" => connection'[c].socket = "gone"
         /\ connection'[c].reader = connection[c].reader
         /\ \A d \in Requests \ {c} : connection'[d] = connection[d]
         /\ UNCHANGED <<pc, cache, entry, signal, outcome>>
<1>1. CASE onOpen(c)
  BY <1>1, Literals DEF onOpen, Types, Connected
<1>2. CASE onMessage(c) \/ CompleteRequest(c) \/ CloseEvents(c)
  BY <1>2, HandlingDoes
<1>3. CASE onClosed(c)
  BY <1>3, Literals DEF onClosed, Types, Connected
<1>4. CASE onFailure(c)
  BY <1>4, Literals, ZenonT(60) DEF onFailure, Types, Connected
<1>5. CASE ServerCloses(c)
  BY <1>5, Literals DEF ServerCloses, Types, Connected
<1>6. QED
  BY <1>1, <1>2, <1>3, <1>4, <1>5 DEF SocketStep

(* What an event tells the request that reads does not change its use.     *)
LEMMA SocketTells ==
  ASSUME Types, NEW c \in Requests, SocketStep(c)
  PROVE  /\ request' \in [Requests -> Requested]
         /\ \A s \in Requests : /\ request'[s].use = request[s].use
                                /\ request'[s].temporary = request[s].temporary
         /\ request' = request \/ \E r \in Requests : r = connection[c].reader /\ Tells(request', r)
<1>1. request' = request \/ \E r \in Requests : r = connection[c].reader /\ Tells(request', r)
  <2>1. ASSUME onOpen(c) \/ ServerCloses(c) PROVE request' = request
    BY <2>1 DEF onOpen, ServerCloses
  <2>2. CASE connection[c].reader = NoOne /\ ~onMessage(c)
    BY <2>2 DEF SocketStep, onOpen, ServerCloses, CompleteRequest, CloseEvents, onClosed,
                onFailure, Completed, CompletionSettled, EventsClosed
  <2>3. ASSUME NEW r \in Requests, r = connection[c].reader PROVE request' = request \/ Tells(request', r)
    <3>1. CASE onMessage(c)
      <4>1. \E e \in {"created", "done", "failed"} : request' = Delivered(c, e)
        BY <3>1 DEF onMessage
      <4>2. QED
        BY <2>3, <4>1, DeliveredDoes
    <3>2. CASE CompleteRequest(c)
      BY <2>3, <3>2, CompletionSettledDoes, Literals DEF CompleteRequest
    <3>3. CASE CloseEvents(c)
      BY <2>3, <3>3, EventsClosedDoes DEF CloseEvents
    <3>4. CASE onClosed(c) \/ onFailure(c)
      <4>1. \E how \in Completions : request' = Completed(request, r, how)
        BY <2>3, <3>4, Literals DEF onClosed, onFailure
      <4>2. QED
        BY <4>1, CompletedDoes
    <3>5. QED
      BY <2>1, <3>1, <3>2, <3>3, <3>4 DEF SocketStep
  <2>4. connection[c].reader \in Owner /\ (onMessage(c) => connection[c].reader # NoOne)
    BY DEF Types, Connected, onMessage
  <2>5. QED
    BY <2>1, <2>2, <2>3, <2>4 DEF Owner
<1>2. CASE request' = request
  BY <1>2 DEF Types
<1>3. ASSUME NEW r \in Requests, r = connection[c].reader, Tells(request', r)
      PROVE  /\ request' \in [Requests -> Requested]
             /\ \A s \in Requests : /\ request'[s].use = request[s].use
                                    /\ request'[s].temporary = request[s].temporary
  BY <1>3 DEF Tells
<1>4. QED
  BY <1>1, <1>2, <1>3

-----------------------------------------------------------------------------
(* One request per connection                                              *)

(* A connection from the cache is one whose opener is past its opening.    *)
LEMMA UseBegun ==
  ASSUME Types, Users, NEW s \in Requests, request[s].use \notin {NoOne, s}
  PROVE  request[s].use \in Requests /\ Begun(request[s].use)
BY DEF Types, Requested, Owner, Users, Uses

(* A step of r that gets it no connection leaves everyone with his own.    *)
LEMMA MoveKeepsUsers ==
  ASSUME Types, Users, NEW r \in Requests,
         \A s \in Requests \ {r} : pc'[s] = pc[s],
         \A s \in Requests : /\ request'[s].use = request[s].use
                             /\ request'[s].temporary = request[s].temporary,
         \A c \in Requests : /\ entry'[c].busy = entry[c].busy
                             /\ entry'[c].timer = entry[c].timer
                             /\ entry'[c].task = entry[c].task
                             /\ connection'[c].reader = connection[c].reader,
         cache' = cache,
         pc[r] \in Early => pc'[r] \notin Opening \cup Using,
         pc'[r] \in Early => pc[r] \in Early,
         pc'[r] \in Opening => pc[r] \in Opening,
         pc'[r] = "inserting" => pc[r] = "inserting" \/ ~request[r].temporary,
         pc'[r] \in Using =>
           pc[r] \in Using \/ (pc[r] \in Opening /\ request[r].temporary),
         pc'[r] \in Using \ {"sending"} => pc[r] \in Using \ {"sending"}
  PROVE  Users'
<1>1. \A c \in Requests : Begun(c) => Begun(c)'
  BY DEF Begun
<1>2. Uses'
  <2> SUFFICES ASSUME NEW s \in Requests
               PROVE  /\ pc'[s] \in Early => request[s].use = NoOne /\ ~request[s].temporary
                      /\ pc'[s] \in Opening => request[s].use = s
                      /\ pc'[s] \in Using => request[s].use \in Requests
                      /\ request[s].use \notin {NoOne, s} =>
                           pc'[request[s].use] \notin Early \cup Opening
                      /\ pc'[s] \in Using /\ request[s].temporary => request[s].use = s
                      /\ pc'[s] \in Using /\ ~request[s].temporary =>
                           entry'[request[s].use].busy
                      /\ pc'[s] \in Opening \cup Using /\ request[s].temporary =>
                           cache' # s /\ ~entry'[s].timer /\ ~entry'[s].task
                      /\ pc'[s] = "inserting" => ~request[s].temporary
    BY DEF Uses, Begun
  <2>1. request[s].use \notin {NoOne, s} => pc'[request[s].use] \notin Early \cup Opening
    <3>2. QED
      BY <1>1, UseBegun DEF Begun
  <2>2. CASE s # r
    BY <2>1, <2>2 DEF Users, Uses
  <2>3. CASE s = r
    <3>1. pc'[r] \in Early => request[r].use = NoOne /\ ~request[r].temporary
      BY DEF Users, Uses
    <3>2. pc'[r] \in Opening \cup Using => pc[r] \in Opening \cup Using
      OBVIOUS
    <3>3. /\ pc'[r] \in Opening => request[r].use = r
          /\ pc'[r] \in Using => request[r].use \in Requests
          /\ pc'[r] = "inserting" => ~request[r].temporary
      BY DEF Users, Uses
    <3>4. pc'[r] \in Using /\ request[r].temporary => request[r].use = r
      BY DEF Users, Uses
    <3>5. pc'[r] \in Using /\ ~request[r].temporary => entry'[request[r].use].busy
      BY DEF Users, Uses
    <3>6. pc'[r] \in Opening \cup Using /\ request[r].temporary =>
                           cache' # r /\ ~entry'[r].timer /\ ~entry'[r].task
      BY <3>2 DEF Users, Uses
    <3>7. QED
      BY <2>1, <2>3, <3>1, <3>3, <3>4, <3>5, <3>6
  <2>4. QED
    BY <2>2, <2>3
<1>3. Entries'
  BY <1>1 DEF Users, Entries
<1>4. OneRequestPerConnection'
  <2>1. ASSUME NEW s \in Requests, NEW t \in Requests, s # t,
               pc'[s] \in Using, pc'[t] \in Using, request[s].use = request[t].use
        PROVE  FALSE
    <3>1. ASSUME NEW u \in Requests \ {r}, pc[u] \in Using, pc'[r] \in Using,
                 request[u].use = request[r].use
          PROVE  FALSE
      <4>1. CASE pc[r] \in Using
        BY <3>1, <4>1 DEF Users, OneRequestPerConnection
      <4>2. CASE pc[r] \in Opening
        <5>1. request[u].use = r /\ r # u /\ r # NoOne
          BY <3>1, <4>2, CodexAssumption DEF Users, Uses, CodexAssumption
        <5>2. QED
          BY <4>2, <5>1 DEF Users, Uses, Begun
      <4>3. QED
        BY <3>1, <4>1, <4>2
    <3>2. CASE s # r /\ t # r
      BY <2>1, <3>2 DEF Users, OneRequestPerConnection
    <3>3. CASE s = r
      BY <2>1, <3>1, <3>3
    <3>4. CASE t = r
      BY <2>1, <3>1, <3>4
    <3>5. QED
      BY <3>2, <3>3, <3>4
  <2>2. ASSUME NEW s \in Requests, pc'[s] \in Using \ {"sending"}
        PROVE  connection'[request[s].use].reader = s
    <3>1. pc[s] \in Using \ {"sending"}
      BY <2>2
    <3>2. request[s].use \in Requests
      BY <3>1 DEF Users, Uses
    <3>3. QED
      BY <3>1, <3>2 DEF Users, OneRequestPerConnection
  <2>3. QED
    BY <2>1, <2>2 DEF OneRequestPerConnection
<1>5. QED
  BY <1>2, <1>3, <1>4 DEF Users

(* A step in which no request moves and no entry is taken or freed.        *)
LEMMA StayKeepsUsers ==
  ASSUME Types, Users, UNCHANGED <<pc, cache>>,
         \A s \in Requests : /\ request'[s].use = request[s].use
                             /\ request'[s].temporary = request[s].temporary,
         \A c \in Requests : /\ entry'[c].busy = entry[c].busy
                             /\ entry'[c].timer = entry[c].timer
                             /\ entry'[c].task = entry[c].task
                             /\ connection'[c].reader = connection[c].reader
  PROVE  Users'
<1>1. CASE Requests = {}
  BY <1>1 DEF Users, Uses, Entries, OneRequestPerConnection
<1>2. ASSUME NEW r \in Requests PROVE Users'
  <2>1. /\ \A s \in Requests \ {r} : pc'[s] = pc[s]
        /\ cache' = cache
        /\ pc[r] \in Early => pc'[r] \notin Opening \cup Using
        /\ pc'[r] \in Early => pc[r] \in Early
        /\ pc'[r] \in Opening => pc[r] \in Opening
        /\ pc'[r] = "inserting" => pc[r] = "inserting" \/ ~request[r].temporary
        /\ pc'[r] \in Using =>
             pc[r] \in Using \/ (pc[r] \in Opening /\ request[r].temporary)
        /\ pc'[r] \in Using \ {"sending"} => pc[r] \in Using \ {"sending"}
    BY DEF Early, Opening, Using
  <2>2. QED
    BY <2>1, MoveKeepsUsers
<1>3. QED
  BY <1>1, <1>2

(* A request that leaves its connection closes it or frees it; nobody else *)
(* had it.                                                                 *)
LEMMA LeaveKeepsUsers ==
  ASSUME Types, Users, NEW r \in Requests, NEW c \in Requests, c = request[r].use,
         pc[r] \in Using,
         pc'[r] \notin Early \cup Opening \cup Using,
         \A s \in Requests \ {r} : pc'[s] = pc[s],
         \A s \in Requests : /\ request'[s].use = request[s].use
                             /\ request'[s].temporary = request[s].temporary,
         \A d \in Requests \ {c} : /\ entry'[d] = entry[d]
                                   /\ connection'[d] = connection[d],
         entry'[c].task = entry[c].task,
         entry'[c].busy => entry[c].busy,
         entry'[c].timer => ~entry'[c].busy /\ ~request[r].temporary,
         cache' \in {cache, NoOne}
  PROVE  Users'
<1>1. \A d \in Requests : Begun(d) => Begun(d)'
  BY DEF Begun
<1>2. Begun(c)'
  <2>1. c # NoOne
    BY CodexAssumption DEF CodexAssumption
  <2>2. CASE c = r
    BY <2>2 DEF Begun
  <2>3. CASE c # r
    BY <1>1, <2>1, <2>3 DEF Users, Uses
  <2>4. QED
    BY <2>2, <2>3
<1>3. \A s \in Requests \ {r} : pc[s] \in Using => request[s].use # c
  BY DEF Users, OneRequestPerConnection
<1>4. Uses'
  <2> SUFFICES ASSUME NEW s \in Requests \ {r}
               PROVE  /\ pc[s] \in Early => request[s].use = NoOne /\ ~request[s].temporary
                      /\ pc[s] \in Opening => request[s].use = s
                      /\ pc[s] \in Using => request[s].use \in Requests
                      /\ request[s].use \notin {NoOne, s} =>
                           pc'[request[s].use] \notin Early \cup Opening
                      /\ pc[s] \in Using /\ request[s].temporary => request[s].use = s
                      /\ pc[s] \in Using /\ ~request[s].temporary =>
                           entry'[request[s].use].busy
                      /\ pc[s] \in Opening \cup Using /\ request[s].temporary =>
                           cache' # s /\ ~entry'[s].timer /\ ~entry'[s].task
                      /\ pc[s] = "inserting" => ~request[s].temporary
    <3>1. r \in Requests /\ pc'[r] # "inserting"
      BY DEF Opening
    <3>2. request[r].use \notin {NoOne, r} => pc'[request[r].use] \notin Early \cup Opening
      BY <1>2 DEF Begun
    <3>3. QED
      BY <3>1, <3>2 DEF Uses, Begun
  <2>1. /\ pc[s] \in Early => request[s].use = NoOne /\ ~request[s].temporary
        /\ pc[s] \in Opening => request[s].use = s
        /\ pc[s] \in Using => request[s].use \in Requests
        /\ pc[s] \in Using /\ request[s].temporary => request[s].use = s
        /\ pc[s] = "inserting" => ~request[s].temporary
    BY DEF Users, Uses
  <2>2. request[s].use \notin {NoOne, s} => pc'[request[s].use] \notin Early \cup Opening
    <3>2. QED
      BY <1>1, UseBegun DEF Begun
  <2>3. pc[s] \in Using /\ ~request[s].temporary => entry'[request[s].use].busy
    BY <1>3 DEF Users, Uses
  <2>4. pc[s] \in Opening \cup Using /\ request[s].temporary =>
          cache' # s /\ ~entry'[s].timer /\ ~entry'[s].task
    <3> SUFFICES ASSUME pc[s] \in Opening \cup Using, request[s].temporary
                 PROVE  cache' # s /\ ~entry'[s].timer /\ ~entry'[s].task
      OBVIOUS
    <3>1. cache # s /\ ~entry[s].timer /\ ~entry[s].task
      BY DEF Users, Uses
    <3>2. request[s].use = s
      BY DEF Users, Uses
    <3>3. c # s
      BY <1>2, <1>3, <3>2 DEF Begun
    <3>4. cache' # s
      BY <3>1, CodexAssumption DEF CodexAssumption
    <3>5. QED
      BY <3>1, <3>3, <3>4
  <2>5. QED
    BY <2>1, <2>2, <2>3, <2>4
<1>5. Entries'
  BY <1>1, <1>2, CodexAssumption DEF Users, Entries, CodexAssumption
<1>6. OneRequestPerConnection'
  BY <1>3 DEF Users, Uses, OneRequestPerConnection
<1>7. QED
  BY <1>4, <1>5, <1>6 DEF Users

(* Steps between calls over SSE: no connection is involved.                *)
LEMMA CallingDoes ==
  ASSUME Types, NEW r \in Requests, Attempt(r) \/ SetActiveCall(r) \/ Execute(r) \/ Read(r)
  PROVE  /\ pc[r] \in Calling /\ pc'[r] \in Calling \cup {"complete", "failed"}
         /\ \A s \in Requests \ {r} : pc'[s] = pc[s]
         /\ \A s \in Requests \ {r} : request'[s] = request[s]
         /\ \A s \in Requests : /\ request'[s].use = request[s].use
                                /\ request'[s].temporary = request[s].temporary
         /\ UNCHANGED <<outcome, signal, connection, cache, entry>>
<1>1. CASE Attempt(r)
  BY <1>1 DEF Attempt, Goto, Calling, Types
<1>2. CASE SetActiveCall(r)
  BY <1>2 DEF SetActiveCall, Goto, Calling, Types, Requested
<1>3. CASE Execute(r)
  <2>1. \/ request' = request
        \/ request' = [request EXCEPT ![r].call = "none", ![r].attempt = request[r].attempt + 1]
    BY <1>3 DEF Execute, Types
  <2>2. /\ \A s \in Requests : /\ request'[s].use = request[s].use
                               /\ request'[s].temporary = request[s].temporary
        /\ \A s \in Requests \ {r} : request'[s] = request[s]
    BY <2>1, SMTT(30), ZenonT(60) DEF Types, Requested
  <2>3. /\ pc[r] \in Calling /\ pc'[r] \in Calling \cup {"complete", "failed"}
        /\ \A s \in Requests \ {r} : pc'[s] = pc[s]
        /\ UNCHANGED <<outcome, signal, connection, cache, entry>>
    BY <1>3 DEF Execute, Goto, Calling, Types
  <2>4. QED
    BY <2>2, <2>3
<1>4. CASE Read(r)
  BY <1>4, SMTT(30), ZenonT(60) DEF Read, Goto, Calling, Types, Requested
<1>5. QED
  BY <1>1, <1>2, <1>3, <1>4

(* An abort and the walk over its listeners.                               *)
LEMMA SignalDoes ==
  ASSUME Types, NEW r \in Requests, Abort(r) \/ SnapshotListeners(r) \/ CallListeners(r)
  PROVE  /\ UNCHANGED <<pc, outcome, cache, entry>>
         /\ \A s \in Requests : /\ request'[s].use = request[s].use
                                /\ request'[s].temporary = request[s].temporary
                                /\ request'[s].completion = request[s].completion
                                /\ request'[s].channel = request[s].channel
                                /\ request'[s].closed = request[s].closed
         /\ \A c \in Requests : /\ connection'[c].reader = connection[c].reader
                                /\ connection'[c].socket = connection[c].socket
                                /\ connection'[c].opened = connection[c].opened
                                /\ connection[c].closed => connection'[c].closed
         /\ \A c \in Requests \ {r} : connection'[c] = connection[c]
         /\ \/ connection' = connection
            \/ CallListeners(r) /\ "socket" \in signal[r].calling
<1>1. CASE Abort(r) \/ SnapshotListeners(r)
  BY <1>1 DEF Abort, SnapshotListeners
<1>2. CASE CallListeners(r)
  <2>1. \A s \in Requests : /\ request'[s].use = request[s].use
                            /\ request'[s].temporary = request[s].temporary
                            /\ request'[s].completion = request[s].completion
                            /\ request'[s].channel = request[s].channel
                            /\ request'[s].closed = request[s].closed
    BY <1>2 DEF CallListeners, Types, Requested
  <2>2. PICK b \in BOOLEAN : b = (connection[r].closed \/ "socket" \in signal[r].calling)
    OBVIOUS
  <2>3. connection' = [connection EXCEPT ![r].closed = b]
    BY <1>2, <2>2 DEF CallListeners
  <2>4. connection[r].closed => b
    BY <2>2, Zenon
  <2>5. \A c \in Requests : /\ connection'[c].reader = connection[c].reader
                            /\ connection'[c].socket = connection[c].socket
                            /\ connection'[c].opened = connection[c].opened
                            /\ connection[c].closed => connection'[c].closed
    BY <2>3, <2>4 DEF Types, Connected
  <2>6. \A c \in Requests \ {r} : connection'[c] = connection[c]
    BY <2>3 DEF Types
  <2>7. "socket" \in signal[r].calling \/ connection' = connection
    <3>1. "socket" \notin signal[r].calling => b = connection[r].closed
      BY <2>2 DEF Types, Connected
    <3>2. [connection EXCEPT ![r].closed = connection[r].closed] = connection
      BY DEF Types, Connected
    <3>3. QED
      BY <2>3, <3>1, <3>2
  <2>8. UNCHANGED <<pc, outcome, cache, entry>>
    BY <1>2 DEF CallListeners
  <2>9. QED
    BY <1>2, <2>1, <2>5, <2>6, <2>7, <2>8
<1>3. QED
  BY <1>1, <1>2

-----------------------------------------------------------------------------
(* What the steps of a request do to its place, and to its connection.     *)

(* Steps that leave every connection as it is.                             *)
LEMMA MovesDo ==
  ASSUME Types, NEW r \in Requests,
         Begin(r) \/ Finish(r) \/ AddListener(r) \/ AwaitOpen(r)
  PROVE  /\ UNCHANGED <<connection, cache, entry>>
         /\ \A s \in Requests \ {r} : pc'[s] = pc[s] /\ request'[s] = request[s]
         /\ \/ /\ pc[r] = "new" /\ pc'[r] \in {"failed", "attempting", "acquiring"}
               /\ request' = request
            \/ /\ pc[r] \in {"complete", "failed"} /\ pc'[r] = "ended"
               /\ request'[r].use = NoOne /\ ~request'[r].temporary
            \/ pc[r] = "adding" /\ pc'[r] = "rechecking" /\ request' = request
            \/ /\ pc[r] = "opening" /\ request' = request
               /\ \/ /\ pc'[r] \in {"attempting", "failed"}
                     /\ connection[r].opened = "failed"
                  \/ pc'[r] = "sending" /\ request[r].temporary
                  \/ pc'[r] = "inserting" /\ ~request[r].temporary
<1>1. CASE Begin(r)
  BY <1>1 DEF Begin, Goto, Types
<1>2. CASE Finish(r)
  <2>1. request'[r].use = NoOne /\ ~request'[r].temporary
    BY <1>2 DEF Finish, NewRequest, Types, Requested
  <2>2. \A s \in Requests \ {r} : request'[s] = request[s]
    BY <1>2 DEF Finish, Types
  <2>3. /\ pc[r] \in {"complete", "failed"} /\ pc'[r] = "ended"
        /\ \A s \in Requests \ {r} : pc'[s] = pc[s]
        /\ UNCHANGED <<connection, cache, entry>>
    BY <1>2 DEF Finish, Goto, Types
  <2>4. QED
    BY <2>1, <2>2, <2>3
<1>3. CASE AddListener(r)
  BY <1>3 DEF AddListener, Goto, Types
<1>4. CASE AwaitOpen(r)
  <2>1. connection[r].opened \in {"yes", "failed"}
    BY <1>4, SMTT(30), ZenonT(60) DEF AwaitOpen, Types, Connected, Opened
  <2>2. QED
    BY <1>4, <2>1 DEF AwaitOpen, Goto, Types
<1>5. QED
  BY <1>1, <1>2, <1>3, <1>4

(* An event is taken from the channel.                                     *)
LEMMA ReceiveDoes ==
  ASSUME Types, NEW r \in Requests, Receive(r)
  PROVE  /\ request' \in [Requests -> Requested]
         /\ \A s \in Requests \ {r} : request'[s] = request[s]
         /\ request'[r].use = request[r].use /\ request'[r].temporary = request[r].temporary
         /\ request'[r].input = request[r].input /\ request'[r].call = request[r].call
         /\ request'[r].closed = request[r].closed
         /\ request'[r].completion = request[r].completion
         /\ request'[r].channel = IF request[r].channel = <<>> THEN request[r].channel
                                  ELSE Tail(request[r].channel)
         /\ request'[r].responseId = (request[r].responseId \/
              (request[r].channel # <<>> /\ Head(request[r].channel) # "failed"))
<1> DEFINE q == request[r].channel
<1>1. PICK ch \in Channels : ch = IF q = <<>> THEN q ELSE Tail(q)
  BY ChannelTypes DEF Types, Requested
<1>2. PICK id \in BOOLEAN : id = (request[r].responseId \/ (q # <<>> /\ Head(q) # "failed"))
  OBVIOUS
<1>3. request' = [request EXCEPT ![r].channel = ch, ![r].responseId = id]
  BY <1>1, <1>2 DEF Receive
<1> HIDE DEF q
<1>4. /\ request' \in [Requests -> Requested]
      /\ \A s \in Requests \ {r} : request'[s] = request[s]
      /\ request'[r].use = request[r].use /\ request'[r].temporary = request[r].temporary
      /\ request'[r].input = request[r].input /\ request'[r].call = request[r].call
      /\ request'[r].closed = request[r].closed
      /\ request'[r].completion = request[r].completion
      /\ request'[r].channel = ch /\ request'[r].responseId = id
  <2>1. PICK x : x = [request[r] EXCEPT !.channel = ch, !.responseId = id]
    OBVIOUS
  <2>2. request[r] \in Requested
    BY DEF Types
  <2>3. /\ x \in Requested
        /\ x.use = request[r].use /\ x.temporary = request[r].temporary
        /\ x.input = request[r].input /\ x.call = request[r].call
        /\ x.closed = request[r].closed /\ x.completion = request[r].completion
        /\ x.channel = ch /\ x.responseId = id
    BY <2>1, <2>2 DEF Requested
  <2>4. request' = [request EXCEPT ![r] = x]
    BY <1>3, <2>1
  <2>5. /\ request' \in [Requests -> Requested] /\ request'[r] = x
        /\ \A s \in Requests \ {r} : request'[s] = request[s]
    BY <2>3, <2>4 DEF Types
  <2>6. QED
    BY <2>3, <2>5
<1>5. QED
  BY <1>1, <1>2, <1>4 DEF q

(* A request that gives up leaves its connection closed.                   *)
LEMMA GiveUpLeaves ==
  ASSUME Types, Users, NEW r \in Requests, GiveUp(r),
         \/ Send(r) /\ connection[request[r].use].closed
         \/ CheckAborted(r) \/ Receive(r) \/ AwaitCompletion(r)
  PROVE  \E c \in Requests :
           /\ c = request[r].use /\ pc[r] \in Using
           /\ connection'[c].closed /\ connection'[c].reader = NoOne
           /\ connection'[c].socket = connection[c].socket
           /\ connection'[c].opened = connection[c].opened
           /\ entry'[c].busy = entry[c].busy /\ entry'[c].task = entry[c].task
           /\ ~entry'[c].timer
           /\ \A d \in Requests \ {c} : connection'[d] = connection[d] /\ entry'[d] = entry[d]
           /\ cache' \in {cache, NoOne}
           /\ pc'[r] \in {"attempting", "failed"}
           /\ \A s \in Requests \ {r} : pc'[s] = pc[s] /\ request'[s] = request[s]
           /\ \A s \in Requests : /\ request'[s].use = request[s].use
                                  /\ request'[s].temporary = request[s].temporary
<1>1. pc[r] \in Using
  BY DEF Send, CheckAborted, Receive, AwaitCompletion, Using
<1>2. PICK c \in Requests : c = request[r].use
  BY <1>1 DEF Users, Uses
<1>3. /\ connection' = Closed(c)
      /\ entry'[c].busy = entry[c].busy /\ entry'[c].task = entry[c].task
      /\ ~entry'[c].timer
      /\ \A d \in Requests \ {c} : entry'[d] = entry[d]
      /\ cache' \in {cache, NoOne}
      /\ pc'[r] \in {"attempting", "failed"}
      /\ \A s \in Requests \ {r} : pc'[s] = pc[s]
  BY <1>2, GiveUpCloses
<1>4. /\ connection'[c].closed /\ connection'[c].reader = NoOne
      /\ connection'[c].socket = connection[c].socket
      /\ connection'[c].opened = connection[c].opened
      /\ \A d \in Requests \ {c} : connection'[d] = connection[d]
  BY <1>3, ClosedTypes
<1>5. /\ \A s \in Requests : /\ request'[s].use = request[s].use
                             /\ request'[s].temporary = request[s].temporary
      /\ \A s \in Requests \ {r} : request'[s] = request[s]
  <2>1. CASE Send(r) /\ connection[request[r].use].closed
    BY <2>1 DEF Send
  <2>2. CASE CheckAborted(r) \/ AwaitCompletion(r)
    BY <2>2 DEF CheckAborted, AwaitCompletion
  <2>3. CASE Receive(r)
    BY <2>3, ReceiveDoes
  <2>4. QED
    BY <2>1, <2>2, <2>3
<1>6. QED
  BY <1>1, <1>2, <1>3, <1>4, <1>5, SMTT(30), ZenonT(60)

(* A request that goes on with its connection.                             *)
LEMMA StaysDo ==
  ASSUME Types, NEW r \in Requests, ~GiveUp(r), CheckAborted(r) \/ Receive(r)
  PROVE  /\ UNCHANGED <<connection, cache, entry>>
         /\ pc[r] \in {"checking", "receiving"}
         /\ pc'[r] \in {"checking", "receiving", "awaiting"}
         /\ \A s \in Requests \ {r} : pc'[s] = pc[s]
         /\ \A s \in Requests : /\ request'[s].use = request[s].use
                                /\ request'[s].temporary = request[s].temporary
<1>1. CASE CheckAborted(r)
  BY <1>1 DEF CheckAborted, Goto, Types
<1>2. CASE Receive(r)
  <2>1. \A s \in Requests : /\ request'[s].use = request[s].use
                            /\ request'[s].temporary = request[s].temporary
    BY <1>2, ReceiveDoes
  <2>2. /\ UNCHANGED <<connection, cache, entry>>
        /\ pc[r] = "receiving" /\ pc'[r] \in {"checking", "awaiting"}
        /\ \A s \in Requests \ {r} : pc'[s] = pc[s]
    BY <1>2 DEF Receive, Goto, Types
  <2>3. QED
    BY <2>1, <2>2
<1>3. QED
  BY <1>1, <1>2

(* A request that is complete leaves its connection closed, or free and    *)
(* watched by the timer.                                                   *)
LEMMA ReleaseLeaves ==
  ASSUME Types, Users, NEW r \in Requests, ~GiveUp(r), AwaitCompletion(r)
  PROVE  \E c \in Requests :
           /\ c = request[r].use /\ pc[r] \in Using /\ ~aborted(r)
           /\ connection'[c].reader = NoOne
           /\ connection'[c].socket = connection[c].socket
           /\ connection'[c].opened = connection[c].opened
           /\ \A d \in Requests \ {c} : connection'[d] = connection[d] /\ entry'[d] = entry[d]
           /\ entry'[c].task = entry[c].task
           /\ cache' \in {cache, NoOne}
           /\ \/ /\ connection'[c].closed
                 /\ ~entry'[c].timer /\ entry'[c].busy = entry[c].busy
              \/ /\ ~request[r].temporary
                 /\ ~connection'[c].closed /\ ~connection[c].closed
                 /\ entry'[c].timer /\ ~entry'[c].busy
           /\ pc'[r] = "complete" /\ \A s \in Requests \ {r} : pc'[s] = pc[s]
           /\ UNCHANGED request
<1>1. pc[r] \in Using /\ ~aborted(r)
  BY DEF AwaitCompletion, Using
<1>2. PICK c \in Requests : c = request[r].use
  BY <1>1 DEF Users, Uses
<1>3. PICK k \in Continued : Release(r, k)
  BY <1>2, Literals DEF AwaitCompletion, Continued, Types, Entered, Requested
<1>4. /\ pc'[r] = "complete" /\ \A s \in Requests \ {r} : pc'[s] = pc[s]
      /\ UNCHANGED request
  BY DEF AwaitCompletion, Goto, Types
<1>5. /\ connection'[c].reader = NoOne
      /\ connection'[c].socket = connection[c].socket
      /\ connection'[c].opened = connection[c].opened
      /\ \A d \in Requests \ {c} : connection'[d] = connection[d] /\ entry'[d] = entry[d]
      /\ entry'[c].task = entry[c].task
      /\ cache' \in {cache, NoOne}
      /\ \/ /\ connection'[c].closed
            /\ ~entry'[c].timer /\ entry'[c].busy = entry[c].busy
         \/ /\ ~request[r].temporary
            /\ ~connection'[c].closed /\ ~connection[c].closed
            /\ entry'[c].timer /\ ~entry'[c].busy
  BY <1>2, <1>3, ReleaseWatches
<1>6. QED
  BY <1>1, <1>2, <1>4, <1>5

-----------------------------------------------------------------------------
(* Sockets and their watchers                                              *)

(* A connection that exists goes on existing.                              *)
LEMMA MoveKeepsSockets ==
  ASSUME Types, Users, Sockets, NEW r \in Requests,
         \A s \in Requests \ {r} : pc'[s] = pc[s] /\ request'[s].use = request[s].use,
         \A c \in Requests :
           /\ connection'[c].opened = "failed" => connection'[c].closed
           /\ connection'[c].opened # "no" =>
                connection[c].opened # "no" \/ connection'[c].socket # "none"
           /\ connection[c].socket # "none" => connection'[c].socket # "none"
           /\ connection[c].socket = "none" => connection'[c].socket = "none" \/ c = r
           /\ connection'[c].reader # NoOne =>
                connection[c].reader # NoOne \/ connection'[c].socket # "none"
           /\ cache' = c => cache = c \/ connection'[c].socket # "none",
         pc'[r] \in Early \cup {"connecting"} => connection'[r].socket = "none",
         pc'[r] \in Opening \ {"connecting"} => connection'[r].socket # "none",
         pc'[r] \in Using =>
           \/ pc[r] \in Using /\ request'[r].use = request[r].use
           \/ connection'[request'[r].use].socket # "none"
  PROVE  Sockets'
<1> SUFFICES ASSUME NEW c \in Requests
             PROVE  /\ connection'[c].opened = "failed" => connection'[c].closed
                    /\ connection'[c].opened # "no" => connection'[c].socket # "none"
                    /\ pc'[c] \in Early \cup {"connecting"} =>
                         connection'[c].socket = "none"
                    /\ pc'[c] \in Opening \ {"connecting"} => connection'[c].socket # "none"
                    /\ cache' = c => connection'[c].socket # "none"
                    /\ pc'[c] \in Using => connection'[request'[c].use].socket # "none"
                    /\ connection'[c].reader # NoOne => connection'[c].socket # "none"
  BY DEF Sockets
<1>1. pc'[c] \in Opening \ {"connecting"} => connection'[c].socket # "none"
  BY DEF Sockets
<1>2. pc[c] \in Using => /\ request[c].use \in Requests
                         /\ connection'[request[c].use].socket # "none"
  BY DEF Sockets, Users, Uses
<1>3. pc'[c] \in Using => connection'[request'[c].use].socket # "none"
  BY <1>2
<1>4. QED
  BY <1>1, <1>3 DEF Sockets

(* A connection that is neither closed nor gone is used, or watched by the *)
(* timer that closes it when it is idle.                                   *)
LEMMA MoveKeepsWatched ==
  ASSUME Types, Users, Watched, NEW r \in Requests,
         \A s \in Requests \ {r} : pc'[s] = pc[s] /\ request'[s].use = request[s].use,
         \A c \in Requests :
           \/ pc'[r] \in Opening \cup Using /\ request'[r].use = c
           \/ /\ connection[c].socket \in {"none", "gone"} =>
                   connection'[c].socket \in {"none", "gone"}
              /\ entry[c].timer \/ entry[c].task =>
                   entry'[c].timer \/ entry'[c].task \/ connection'[c].closed
              /\ pc[r] \in Opening \cup Using /\ request[r].use = c =>
                   connection'[c].closed \/ entry'[c].timer,
         \A c \in Requests :
           /\ Begun(c) /\ connection[c].closed => connection'[c].closed
           /\ connection[c].closed =>
                connection'[c].closed \/ (pc'[r] \in Opening /\ request'[r].use = c),
         \A c \in Requests :
           \/ pc'[r] \in Using /\ request'[r].use = c
           \/ connection'[c].closed
           \/ /\ entry'[c].busy => entry[c].busy /\ Begun(c)
              /\ pc[r] \in Using /\ request[r].use = c => ~entry'[c].busy,
         pc'[r] \in Calling =>
           request'[r].use = NoOne \/ connection'[request'[r].use].closed
  PROVE  Watched'
<1>1. ASSUME NEW c \in Requests
      PROVE  \/ connection'[c].socket \in {"none", "gone"} \/ connection'[c].closed
             \/ entry'[c].timer \/ entry'[c].task
             \/ \E s \in Requests : request'[s].use = c /\ pc'[s] \in Opening \cup Using
  <2>1. CASE pc'[r] \in Opening \cup Using /\ request'[r].use = c
    BY <2>1
  <2>2. CASE connection[c].socket \in {"none", "gone"} \/ entry[c].timer \/ entry[c].task
    BY <2>2
  <2>3. CASE connection[c].closed
    BY <2>3
  <2>4. CASE \E s \in Requests : request[s].use = c /\ pc[s] \in Opening \cup Using
    <3>1. PICK s \in Requests : request[s].use = c /\ pc[s] \in Opening \cup Using
      BY <2>4
    <3>2. CASE s = r
      BY <3>1, <3>2
    <3>3. CASE s # r
      BY <3>1, <3>3
    <3>4. QED
      BY <3>2, <3>3
  <2>5. QED
    BY <2>1, <2>2, <2>3, <2>4 DEF Watched
<1>2. ASSUME NEW c \in Requests, entry'[c].busy
      PROVE  \/ connection'[c].closed
             \/ \E s \in Requests : request'[s].use = c /\ pc'[s] \in Using
  <2>1. CASE (pc'[r] \in Using /\ request'[r].use = c) \/ connection'[c].closed
    BY <2>1
  <2>2. CASE ~((pc'[r] \in Using /\ request'[r].use = c) \/ connection'[c].closed)
    <3>1. entry[c].busy /\ Begun(c) /\ ~(pc[r] \in Using /\ request[r].use = c)
      BY <1>2, <2>2
    <3>2. CASE connection[c].closed
      BY <3>1, <3>2
    <3>3. CASE ~connection[c].closed
      <4>1. PICK s \in Requests : request[s].use = c /\ pc[s] \in Using
        BY <3>1, <3>3 DEF Watched
      <4>2. QED
        BY <3>1, <4>1
    <3>4. QED
      BY <3>2, <3>3
  <2>3. QED
    BY <2>1, <2>2
<1>3. ASSUME NEW s \in Requests, pc'[s] \in Calling
      PROVE  request'[s].use = NoOne \/ connection'[request'[s].use].closed
  <2>1. CASE s = r
    BY <1>3, <2>1
  <2>2. CASE s # r /\ request[s].use # NoOne
    <3>1. pc[s] \in Calling /\ connection[request[s].use].closed
      BY <1>3, <2>2 DEF Watched
    <3>2. request[s].use \in Requests /\ Begun(request[s].use)
      <4>1. Begun(s)
        BY <3>1 DEF Begun, Calling, Early, Opening
      <4>2. QED
        BY <2>2, <4>1, UseBegun
    <3>3. QED
      BY <2>2, <3>1, <3>2
  <2>3. QED
    BY <2>1, <2>2
<1>4. QED
  BY <1>1, <1>2, <1>3 DEF Watched

(* A walk over the listeners of an abort that will close a connection      *)
(* closes the request's own.                                               *)
LEMMA MoveKeepsCalled ==
  ASSUME Types, Users, Called, NEW r \in Requests,
         \A s \in Requests \ {r} : /\ pc'[s] = pc[s] /\ request'[s].use = request[s].use
                                   /\ signal'[s] = signal[s],
         \A c \in Requests \ {r} : connection[c].closed => connection'[c].closed,
         signal'[r].calling # {} => aborted(r)',
         "socket" \in signal'[r].listeners => pc'[r] \in {"rechecking", "opening"},
         "socket" \in signal'[r].calling =>
           \/ connection'[r].closed
           \/ pc'[r] \in {"rechecking", "opening", "inserting"} \cup Using /\ request'[r].use = r
  PROVE  Called'
BY DEF Called, WalkReaches, aborted

(* A step in which no request moves: a timer may become a task, a task may *)
(* close its connection, unless that is in use.                            *)
LEMMA StayKeepsWatched ==
  ASSUME Types, Users, Watched, UNCHANGED pc,
         \A s \in Requests : request'[s].use = request[s].use,
         \A c \in Requests :
           /\ connection[c].socket \in {"none", "gone"} =>
                connection'[c].socket \in {"none", "gone"}
           /\ connection[c].closed => connection'[c].closed
           /\ entry[c].timer \/ entry[c].task =>
                \/ entry'[c].timer \/ entry'[c].task \/ connection'[c].closed
                \/ entry[c].busy
           /\ entry'[c].busy = entry[c].busy
  PROVE  Watched'
<1>1. ASSUME NEW c \in Requests
      PROVE  \/ connection'[c].socket \in {"none", "gone"} \/ connection'[c].closed
             \/ entry'[c].timer \/ entry'[c].task
             \/ \E s \in Requests : request'[s].use = c /\ pc'[s] \in Opening \cup Using
  <2>1. CASE \E s \in Requests : request[s].use = c /\ pc[s] \in Opening \cup Using
    BY <2>1
  <2>2. CASE entry[c].busy
    BY <2>2 DEF Watched
  <2>3. QED
    BY <2>1, <2>2 DEF Watched
<1>2. ASSUME NEW c \in Requests, entry'[c].busy
      PROVE  \/ connection'[c].closed
             \/ \E s \in Requests : request'[s].use = c /\ pc'[s] \in Using
  BY <1>2 DEF Watched
<1>3. ASSUME NEW s \in Requests, pc'[s] \in Calling
      PROVE  request'[s].use = NoOne \/ connection'[request'[s].use].closed
  <2>1. request[s].use \in Owner
    BY DEF Types, Requested
  <2>2. QED
    BY <1>3, <2>1 DEF Watched, Owner
<1>4. QED
  BY <1>1, <1>2, <1>3 DEF Watched

(* A request whose place and connection stay as they are.                  *)
LEMMA StayKeepsCalled ==
  ASSUME Types, Called, UNCHANGED <<pc, signal>>,
         \A s \in Requests : request'[s].use = request[s].use,
         \A c \in Requests : connection[c].closed => connection'[c].closed
  PROVE  Called'
BY DEF Called, WalkReaches, aborted

-----------------------------------------------------------------------------
(* Aborts that reach, and answers that come                                *)

(* A step of a request that does not wait for the handshake after it.      *)
LEMMA MoveKeepsReached ==
  ASSUME Reached, NEW r \in Requests,
         \A s \in Requests \ {r} : /\ pc'[s] = pc[s] /\ signal'[s] = signal[s]
                                   /\ connection[s].closed => connection'[s].closed,
         pc'[r] \notin {"rechecking", "opening"}
  PROVE  Reached'
BY DEF Reached

(* A step in which no request moves and no signal changes.                 *)
LEMMA StayKeepsReached ==
  ASSUME Reached, UNCHANGED <<pc, signal>>,
         \A s \in Requests : connection[s].closed => connection'[s].closed
  PROVE  Reached'
BY DEF Reached

(* A step of a request that uses, after it, the connection it used or one  *)
(* whose handshake is over.                                                *)
LEMMA MoveKeepsOpens ==
  ASSUME Types, Users, Opens, NEW r \in Requests,
         \A s \in Requests \ {r} : pc'[s] = pc[s] /\ request'[s].use = request[s].use,
         \A c \in Requests : /\ connection'[c].opened = connection[c].opened
                             /\ connection'[c].socket = connection[c].socket
                             /\ connection[c].closed => connection'[c].closed
                             /\ cache' = c => cache = c \/ connection[c].opened # "no",
         pc'[r] = "inserting" => pc[r] = "inserting" \/ connection[r].opened # "no",
         pc'[r] \in Using =>
           \/ pc[r] \in Using /\ request'[r].use = request[r].use
           \/ connection'[request'[r].use].opened # "no"
  PROVE  Opens'
<1>1. \A c \in Requests :
        /\ connection'[c].opened = "no" <=> connection'[c].socket \in {"none", "connecting"}
        /\ connection'[c].socket = "gone" => connection'[c].closed
        /\ cache' = c \/ pc'[c] = "inserting" => connection'[c].opened # "no"
  BY DEF Opens
<1>2. \A s \in Requests : pc[s] \in Using =>
        request[s].use \in Requests /\ connection[request[s].use].opened # "no"
  BY DEF Opens, Users, Uses
<1>3. ASSUME NEW s \in Requests, pc'[s] \in Using
      PROVE  connection'[request'[s].use].opened # "no"
  BY <1>2, <1>3
<1>4. QED
  BY <1>1, <1>3 DEF Opens

(* A step of a request that neither asks the server nor starts to wait for *)
(* an answer.                                                              *)
LEMMA MoveKeepsAnswered ==
  ASSUME Types, Users, Answered, NEW r \in Requests, asked' = asked,
         \A s \in Requests \ {r} : /\ pc'[s] = pc[s] /\ request'[s].use = request[s].use
                                   /\ Unsettled(s)' => Unsettled(s),
         \A c \in Requests : connection[c].socket = "deaf" =>
           connection'[c].socket = "deaf",
         pc'[r] \in Reading =>
           /\ pc[r] \in Reading /\ request'[r].use = request[r].use
           /\ Unsettled(r)' => Unsettled(r)
  PROVE  Answered'
<1>1. \A s \in Requests : pc[s] \in Using => request[s].use \in Requests
  BY DEF Users, Uses
<1>2. ASSUME NEW s \in Requests, pc'[s] \in Reading, Unsettled(s)'
      PROVE  \/ asked'[request'[s].use].by = s
             \/ connection'[request'[s].use].socket = "deaf"
  <2>1. pc[s] \in Reading /\ request'[s].use = request[s].use /\ Unsettled(s)
    BY <1>2
  <2>2. asked[request[s].use].by = s \/ connection[request[s].use].socket = "deaf"
    BY <2>1 DEF Answered
  <2>3. QED
    BY <1>1, <2>1, <2>2 DEF Reading, Using
<1>3. /\ asked' = [c \in Requests |-> asked'[c]]
      /\ \A c \in Requests : DOMAIN asked'[c] = DOMAIN asked[c]
  BY DEF Answered
<1>4. QED
  BY <1>2, <1>3 DEF Answered

(* What a connection tells its reader settles his request, or leaves it as it is. *)
LEMMA TellsSettle ==
  ASSUME Types, NEW c \in Requests, SocketStep(c)
  PROVE  /\ \A s \in Requests : Unsettled(s)' => Unsettled(s)
         /\ \A r \in Requests : r = connection[c].reader =>
              \/ ~Unsettled(r)'
              \/ onOpen(c) \/ ServerCloses(c)
              \/ /\ connection'[c].socket = connection[c].socket
                 /\ asked' = asked \/ asked' = [asked EXCEPT ![c].created = TRUE]
<1>1. CASE request' = request
  <2>1. \A s \in Requests : Unsettled(s)' => Unsettled(s)
    BY <1>1 DEF Unsettled
  <2>2. ASSUME NEW r \in Requests, r = connection[c].reader, Unsettled(r)'
        PROVE  \/ onOpen(c) \/ ServerCloses(c)
               \/ /\ connection'[c].socket = connection[c].socket
                  /\ asked' = asked \/ asked' = [asked EXCEPT ![c].created = TRUE]
    <3>1. ~request[r].closed /\ request[r].channel \in Channels
      BY <1>1, <2>2 DEF Unsettled, Types, Requested
    <3>2. CASE onMessage(c)
      <4>1. PICK e \in {"created", "done", "failed"} : request' = Delivered(c, e)
        BY <3>2 DEF onMessage
      <4>2. request'[r].channel = IF request[r].closed THEN request[r].channel
                                  ELSE Append(request[r].channel, e)
        BY <2>2, <4>1, DeliveredDoes
      <4>3. Len(request'[r].channel) = Len(request[r].channel) + 1
        BY <3>1, <4>2 DEF Channels
      <4>4. Len(request[r].channel) \in Nat
        BY <3>1 DEF Channels
      <4>5. QED
        BY <1>1, <4>3, <4>4
    <3>3. CASE CompleteRequest(c) \/ CloseEvents(c)
      BY <3>3, HandlingDoes DEF CompleteRequest, CloseEvents, server
    <3>4. CASE onClosed(c) \/ onFailure(c)
      <4>1. PICK how \in Completions : request' = Completed(request, r, how)
        BY <2>2, <3>4, Literals DEF onClosed, onFailure
      <4>2. request'[r].closed
        BY <4>1, CompletedDoes
      <4>3. QED
        BY <1>1, <3>1, <4>2
    <3>5. QED
      BY <3>2, <3>3, <3>4 DEF SocketStep
  <2>3. QED
    BY <2>1, <2>2
<1>2. ASSUME NEW r \in Requests, r = connection[c].reader, Tells(request', r)
      PROVE  /\ \A s \in Requests : Unsettled(s)' => Unsettled(s)
             /\ Unsettled(r)' =>
                  \/ onOpen(c) \/ ServerCloses(c)
                  \/ /\ connection'[c].socket = connection[c].socket
                     /\ asked' = asked \/ asked' = [asked EXCEPT ![c].created = TRUE]
  <2>1. \A s \in Requests \ {r} : Unsettled(s)' => Unsettled(s)
    BY <1>2 DEF Tells, Unsettled
  <2>2. CASE onMessage(c)
    <3>1. PICK e \in {"created", "done", "failed"} :
            /\ request' = Delivered(c, e)
            /\ e = "created" => asked' = [asked EXCEPT ![c].created = TRUE]
      BY <2>2 DEF onMessage
    <3>2. /\ request'[r].closed = request[r].closed
          /\ request'[r].channel = IF request[r].closed THEN request[r].channel
                                   ELSE Append(request[r].channel, e)
      BY <1>2, <3>1, DeliveredDoes
    <3>3. CASE request[r].closed
      BY <2>1, <3>2, <3>3 DEF Unsettled
    <3>4. CASE ~request[r].closed
      <4>1. PICK ch : ch = Append(request[r].channel, e)
        OBVIOUS
      <4>2. request[r].channel \in Seq({"created", "done", "failed"})
        BY DEF Types, Requested, Channels
      <4>3. /\ Len(ch) = Len(request[r].channel) + 1 /\ ch[Len(ch)] = e
            /\ \A i \in 1..Len(request[r].channel) : ch[i] = request[r].channel[i]
        BY <4>1, <4>2
      <4>4. request'[r].channel = ch
        BY <3>2, <3>4, <4>1
      <4>5. Unsettled(r)' => Unsettled(r) /\ e = "created"
        BY <3>2, <4>2, <4>3, <4>4 DEF Unsettled
      <4>6. QED
        BY <2>1, <2>2, <3>1, <4>5, HandlingDoes
    <3>5. QED
      BY <3>3, <3>4
  <2>3. CASE CompleteRequest(c)
    <3>1. /\ request'[r].closed = request[r].closed /\ request'[r].channel = request[r].channel
          /\ asked' = asked
      BY <1>2, <2>3, CompletionSettledDoes, Literals DEF CompleteRequest, server
    <3>2. QED
      BY <2>1, <2>3, <3>1, HandlingDoes DEF Unsettled
  <2>4. CASE CloseEvents(c)
    BY <1>2, <2>1, <2>4, EventsClosedDoes DEF CloseEvents, Unsettled
  <2>5. CASE onClosed(c) \/ onFailure(c)
    <3>1. \E how \in Completions : request' = Completed(request, r, how)
      BY <1>2, <2>5, Literals DEF onClosed, onFailure
    <3>2. QED
      BY <2>1, <3>1, CompletedDoes DEF Unsettled
  <2>6. CASE onOpen(c) \/ ServerCloses(c)
    BY <2>6 DEF onOpen, ServerCloses, Unsettled
  <2>7. QED
    BY <2>2, <2>3, <2>4, <2>5, <2>6 DEF SocketStep
<1>3. QED
  BY <1>1, <1>2, SocketTells

(* A request goes on reading after an event that was not the last.         *)
LEMMA ReceiveKeepsUnsettled ==
  ASSUME Types, NEW r \in Requests, Receive(r), ~GiveUp(r)
  PROVE  /\ pc'[r] \in Reading /\ Unsettled(r)' => Unsettled(r)
         /\ \A s \in Requests \ {r} : request'[s] = request[s]
<1> DEFINE q == request[r].channel
<1>1. q \in Seq({"created", "done", "failed"})
  BY DEF Types, Requested, Channels
<1>2. pc'[r] \in Reading => q # <<>> /\ Head(q) = "created"
  BY DEF Receive, Goto, Reading, Types
<1>3. PICK ch : ch = IF q = <<>> THEN q ELSE Tail(q)
  OBVIOUS
<1>6. /\ request'[r].channel = ch /\ request'[r].closed = request[r].closed
      /\ \A s \in Requests \ {r} : request'[s] = request[s]
  BY <1>3, ReceiveDoes
<1>7. ASSUME q # <<>>, Head(q) = "created",
             \A i \in 1..Len(ch) : ch[i] = "created", NEW i \in 1..Len(q)
      PROVE  q[i] = "created"
  <2>1. CASE i = 1
    BY <1>1, <1>7, <2>1
  <2>2. CASE i # 1
    <3>1. i - 1 \in 1..Len(Tail(q)) /\ Tail(q)[i - 1] = q[i]
      BY <1>1, <1>7, <2>2
    <3>2. QED
      BY <1>3, <1>7, <3>1
  <2>3. QED
    BY <2>1, <2>2
<1> HIDE DEF q
<1>8. pc'[r] \in Reading /\ Unsettled(r)' => Unsettled(r)
  BY <1>2, <1>6, <1>7 DEF Unsettled, q
<1>9. QED
  BY <1>6, <1>8

(* The handshake ends when the socket is open or gone.                     *)
LEMMA SocketOpens ==
  ASSUME Types, Opens, NEW c \in Requests, SocketStep(c)
  PROVE  /\ connection'[c].opened = "no" <=> connection'[c].socket \in {"none", "connecting"}
         /\ connection'[c].socket = "gone" => connection'[c].closed
         /\ connection[c].opened # "no" => connection'[c].opened # "no"
<1>1. /\ connection[c].opened = "no" <=> connection[c].socket \in {"none", "connecting"}
      /\ connection[c].socket = "gone" => connection[c].closed
  BY DEF Opens
<1>2. CASE onOpen(c) \/ ServerCloses(c)
  BY <1>1, <1>2 DEF onOpen, ServerCloses, Types, Connected
<1>3. CASE onMessage(c) \/ CompleteRequest(c) \/ CloseEvents(c)
  BY <1>1, <1>3, HandlingDoes
<1>4. CASE onClosed(c)
  BY <1>1, <1>4 DEF onClosed, Types, Connected
<1>5. CASE onFailure(c)
  BY <1>1, <1>5 DEF onFailure, Types, Connected
<1>6. QED
  BY <1>2, <1>3, <1>4, <1>5 DEF SocketStep

(* What the server still owes over a connection changes with its events.   *)
LEMMA ServerDoes ==
  ASSUME Types, Answered, NEW c \in Requests, SocketStep(c)
  PROVE  /\ asked' = [d \in Requests |-> asked'[d]]
         /\ \A d \in Requests : DOMAIN asked'[d] = {"by", "context", "created"}
         /\ \A d \in Requests \ {c} : asked'[d] = asked[d]
         /\ ServerCloses(c) => connection'[c].socket = "deaf"
<1>1. \/ asked' = asked
      \/ asked' = [asked EXCEPT ![c] = NotAsked]
      \/ asked' = [asked EXCEPT ![c].created = TRUE]
  BY DEF SocketStep, onOpen, onMessage, CompleteRequest, CloseEvents, onClosed, onFailure,
         ServerCloses, server
<1>2. DOMAIN NotAsked = {"by", "context", "created"}
  BY DEF NotAsked
<1>3. /\ asked' = [d \in Requests |-> asked'[d]]
      /\ \A d \in Requests : DOMAIN asked'[d] = {"by", "context", "created"}
      /\ \A d \in Requests \ {c} : asked'[d] = asked[d]
  BY <1>1, <1>2 DEF Answered
<1>4. ServerCloses(c) => connection'[c].socket = "deaf"
  BY DEF ServerCloses, Types, Connected
<1>5. QED
  BY <1>3, <1>4

(* Every step keeps the types.                                             *)
LEMMA TypesStep ==
  ASSUME Types, Users, [Next]_vars
  PROVE  Types'
<1>1. ASSUME NEW r \in Requests, Begin(r) PROVE Types'
  <2>1. pc' \in [Requests -> Steps]
    BY <1>1, StepLiterals DEF Begin, Goto, Early, Opening, Using, Calling, Types
  <2>2. signal' \in [Requests -> Signalled]
    BY <1>1, Literals, Listening, ZenonT(60) DEF Begin, RemoveListener, Signalled, Types
  <2>3. QED
    BY <1>1, <2>1, <2>2 DEF Begin, Types
<1>2. ASSUME NEW r \in Requests, Finish(r) PROVE Types'
  <2>1. pc' \in [Requests -> Steps]
    BY <1>2, StepLiterals
       DEF Finish, Goto, Early, Opening, Using, Calling, Types
  <2>2. outcome' \in [Requests -> Ends]
    BY <1>2, Literals DEF Finish, NewRequest, Types
  <2>3. request' \in [Requests -> Requested]
    BY <1>2, Literals, ChannelTypes, AttemptTypes
       DEF Finish, NewRequest, Requested, Types
  <2>4. signal' \in [Requests -> Signalled]
    BY <1>2, Literals, Listening
       DEF Finish, NewRequest, RemoveListener, Signalled, Types
  <2>5. QED
    BY <1>2, <2>1, <2>2, <2>3, <2>4 DEF Finish, Types
<1>3. ASSUME NEW r \in Requests, Acquire(r) PROVE Types'
  <2>1. pc' \in [Requests -> Steps]
    BY <1>3, StepLiterals
       DEF Acquire, Goto, Early, Opening, Using, Calling, Types
  <2>2. /\ request' \in [Requests -> Requested] /\ entry' \in [Requests -> Entered]
        /\ cache' \in Owner
    BY <1>3, AcquireDoes
  <2>3. QED
    BY <1>3, <2>1, <2>2 DEF Acquire, Types
<1>4. ASSUME NEW r \in Requests, Connect(r) PROVE Types'
  <2>1. pc' \in [Requests -> Steps]
    BY <1>4, StepLiterals
       DEF Connect, Goto, Early, Opening, Using, Calling, Types
  <2>2. connection' \in [Requests -> Connected]
    BY <1>4, ConnectDoes
  <2>3. QED
    BY <1>4, <2>1, <2>2 DEF Connect, Types
<1>5. ASSUME NEW r \in Requests, AddListener(r) PROVE Types'
  <2>1. pc' \in [Requests -> Steps]
    BY <1>5, StepLiterals
       DEF AddListener, Goto, Early, Opening, Using, Calling, Types
  <2>2. signal' \in [Requests -> Signalled]
    BY <1>5, Literals, Listening
       DEF AddListener, RemoveListener, Signalled, Types
  <2>3. QED
    BY <1>5, <2>1, <2>2 DEF AddListener, Types
<1>6. ASSUME NEW r \in Requests, RecheckFlag(r) PROVE Types'
  <2>1. pc' \in [Requests -> Steps]
    BY <1>6, StepLiterals
       DEF RecheckFlag, Goto, Early, Opening, Using, Calling, Types
  <2>2. CASE aborted(r)
    <3>1. /\ RemoveListener(r, "socket")
          /\ connection' = [connection EXCEPT ![r].closed = TRUE]
      BY <1>6, <2>2 DEF RecheckFlag
    <3>2. signal' \in [Requests -> Signalled]
      BY <3>1, RemoveTypes
    <3>3. connection' \in [Requests -> Connected]
      BY <3>1, CloseTypes
    <3>4. QED
      BY <1>6, <2>1, <3>2, <3>3 DEF RecheckFlag, Types
  <2>3. CASE ~aborted(r)
    BY <1>6, <2>1, <2>3 DEF RecheckFlag, Types
  <2>4. QED
    BY <2>2, <2>3
<1>7. ASSUME NEW r \in Requests, AwaitOpen(r) PROVE Types'
  <2>1. pc' \in [Requests -> Steps]
    BY <1>7, StepLiterals
       DEF AwaitOpen, Goto, Early, Opening, Using, Calling, Types
  <2>2. signal' \in [Requests -> Signalled]
    BY <1>7, Literals, Listening DEF AwaitOpen, RemoveListener, Signalled, Types
  <2>3. QED
    BY <1>7, <2>1, <2>2 DEF AwaitOpen, Types
<1>8. ASSUME NEW r \in Requests, Insert(r) PROVE Types'
  <2>1. pc' \in [Requests -> Steps]
    BY <1>8, StepLiterals
       DEF Insert, Goto, Early, Opening, Using, Calling, Types
  <2>2. cache' \in Owner
    BY <1>8, Literals DEF Insert, Types
  <2>3. entry' \in [Requests -> Entered]
    BY <1>8, Literals DEF Insert, Entered, NoContinuation, Types
  <2>4. QED
    BY <1>8, <2>1, <2>2, <2>3 DEF Insert, Types
<1>9. ASSUME NEW r \in Requests, Send(r) PROVE Types'
  <2>1. ASSUME GiveUp(r), connection[request[r].use].closed PROVE Types'
    <3>1. request[r].use \in Requests
      BY <1>9 DEF Send, Users, Uses, Using
    <3>2. connection' \in [Requests -> Connected]
      BY <2>1, <3>1, GiveUpCloses, ClosedTypes
    <3>3. /\ entry' \in [Requests -> Entered] /\ cache' \in Owner
          /\ pc' \in [Requests -> Steps]
      BY <2>1, <3>1, GiveUpCloses
    <3>4. QED
      BY <1>9, <2>1, <3>2, <3>3 DEF Send, Types
  <2>2. CASE ~connection[request[r].use].closed
    <3>1. request[r].use \in Requests
      BY <1>9 DEF Send, Users, Uses, Using
    <3>2. /\ request' \in [Requests -> Requested] /\ connection' \in [Requests -> Connected]
          /\ entry' \in [Requests -> Entered] /\ cache' = cache
          /\ pc' = [pc EXCEPT ![r] = "checking"]
      BY <1>9, <2>2, <3>1, SendDoes
    <3>3. pc' \in [Requests -> Steps]
      BY <3>2, StepLiterals DEF Using, Types
    <3>4. QED
      BY <1>9, <3>2, <3>3 DEF Send, Types
  <2>3. QED
    BY <1>9, <2>1, <2>2 DEF Send
<1>10. ASSUME NEW r \in Requests, CheckAborted(r) PROVE Types'
  <2>1. ASSUME GiveUp(r) PROVE Types'
    <3>1. request[r].use \in Requests
      BY <1>10 DEF CheckAborted, Users, Uses, Using
    <3>2. connection' \in [Requests -> Connected]
      BY <2>1, <3>1, GiveUpCloses, ClosedTypes
    <3>3. /\ entry' \in [Requests -> Entered] /\ cache' \in Owner
          /\ pc' \in [Requests -> Steps]
      BY <2>1, <3>1, GiveUpCloses
    <3>4. QED
      BY <1>10, <3>2, <3>3 DEF CheckAborted, Types
  <2>2. ASSUME ~GiveUp(r) PROVE Types'
    <3>1. pc' = [pc EXCEPT ![r] = "receiving"] /\ UNCHANGED <<connection, cache, entry>>
      BY <1>10, <2>2 DEF CheckAborted, Goto
    <3>2. pc' \in [Requests -> Steps]
      BY <3>1, StepLiterals DEF Using, Types
    <3>3. QED
      BY <1>10, <3>1, <3>2 DEF CheckAborted, Types
  <2>3. QED
    BY <2>1, <2>2
<1>11. ASSUME NEW r \in Requests, Receive(r) PROVE Types'
  <2>1. request' \in [Requests -> Requested]
    BY <1>11, ReceiveDoes
  <2>2. ASSUME GiveUp(r) PROVE Types'
    <3>1. request[r].use \in Requests
      BY <1>11 DEF Receive, Users, Uses, Using
    <3>2. connection' \in [Requests -> Connected]
      BY <2>2, <3>1, GiveUpCloses, ClosedTypes
    <3>3. /\ entry' \in [Requests -> Entered] /\ cache' \in Owner
          /\ pc' \in [Requests -> Steps]
      BY <2>2, <3>1, GiveUpCloses
    <3>4. QED
      BY <1>11, <2>1, <3>2, <3>3 DEF Receive, Types
  <2>3. ASSUME ~GiveUp(r) PROVE Types'
    <3>1. /\ pc' = [pc EXCEPT ![r] = "checking"] \/ pc' = [pc EXCEPT ![r] = "awaiting"]
          /\ UNCHANGED <<connection, cache, entry>>
      BY <1>11, <2>3 DEF Receive, Goto
    <3>2. pc' \in [Requests -> Steps]
      BY <3>1, StepLiterals DEF Using, Types
    <3>3. QED
      BY <1>11, <2>1, <3>1, <3>2 DEF Receive, Types
  <2>4. QED
    BY <2>2, <2>3
<1>12. ASSUME NEW r \in Requests, AwaitCompletion(r) PROVE Types'
  <2>1. ASSUME GiveUp(r) PROVE Types'
    <3>1. request[r].use \in Requests
      BY <1>12 DEF AwaitCompletion, Users, Uses, Using
    <3>2. connection' \in [Requests -> Connected]
      BY <2>1, <3>1, GiveUpCloses, ClosedTypes
    <3>3. /\ entry' \in [Requests -> Entered] /\ cache' \in Owner
          /\ pc' \in [Requests -> Steps]
      BY <2>1, <3>1, GiveUpCloses
    <3>4. QED
      BY <1>12, <3>2, <3>3 DEF AwaitCompletion, Types
  <2>2. ASSUME ~GiveUp(r) PROVE Types'
    <3>1. request[r].use \in Requests
      BY <1>12 DEF AwaitCompletion, Users, Uses, Using
    <3>2. PICK k \in Continued : Release(r, k)
      BY <1>12, <2>2, <3>1, Literals
         DEF AwaitCompletion, Continued, Types, Entered, Requested
    <3>3. /\ connection' \in [Requests -> Connected]
          /\ entry' \in [Requests -> Entered] /\ cache' \in Owner
      BY <3>1, <3>2, ReleaseWatches
    <3>4. pc' \in [Requests -> Steps]
      BY <1>12, <2>2, StepLiterals DEF AwaitCompletion, Goto, Types
    <3>5. QED
      BY <1>12, <3>3, <3>4 DEF AwaitCompletion, Types
  <2>3. QED
    BY <2>1, <2>2
<1>13. ASSUME NEW r \in Requests, Attempt(r) PROVE Types'
  <2>1. pc' \in [Requests -> Steps]
    BY <1>13, StepLiterals
       DEF Attempt, Goto, Early, Opening, Using, Calling, Types
  <2>2. QED
    BY <1>13, <2>1 DEF Attempt, Types
<1>14. ASSUME NEW r \in Requests, SetActiveCall(r) PROVE Types'
  <2>1. pc' \in [Requests -> Steps]
    BY <1>14, StepLiterals
       DEF SetActiveCall, Goto, Early, Opening, Using, Calling, Types
  <2>2. request' \in [Requests -> Requested]
    BY <1>14, Literals, ChannelTypes, AttemptTypes
       DEF SetActiveCall, Requested, Types
  <2>3. QED
    BY <1>14, <2>1, <2>2 DEF SetActiveCall, Types
<1>15. ASSUME NEW r \in Requests, Execute(r) PROVE Types'
  <2>1. pc' \in [Requests -> Steps]
    BY <1>15, StepLiterals
       DEF Execute, Goto, Early, Opening, Using, Calling, Types
  <2>2. request' \in [Requests -> Requested]
    BY <1>15, Literals, ChannelTypes, AttemptTypes, SMTT(30), ZenonT(60)
       DEF Execute, Requested, Types
  <2>3. QED
    BY <1>15, <2>1, <2>2 DEF Execute, Types
<1>16. ASSUME NEW r \in Requests, Read(r) PROVE Types'
  <2>1. pc' \in [Requests -> Steps]
    BY <1>16, StepLiterals DEF Read, Goto, Early, Opening, Using, Calling, Types
  <2>2. request' \in [Requests -> Requested]
    <3>1. \/ request' = request
          \/ request' = [request EXCEPT ![r].responseId = TRUE]
          \/ request' = [request EXCEPT ![r].call = "cut"]
      BY <1>16 DEF Read
    <3>2. CASE request' = [request EXCEPT ![r].responseId = TRUE]
      <4>1. [request[r] EXCEPT !.responseId = TRUE] \in Requested
        BY DEF Requested, Types
      <4>2. request' = [request EXCEPT ![r] = [request[r] EXCEPT !.responseId = TRUE]]
        BY <3>2
      <4>3. QED
        BY <4>1, <4>2, Zenon DEF Types
    <3>3. CASE request' = [request EXCEPT ![r].call = "cut"]
      BY <3>3, Literals DEF Requested, Types
    <3>4. QED
      BY <3>1, <3>2, <3>3 DEF Types
  <2>3. QED
    BY <1>16, <2>1, <2>2 DEF Read, Types
<1>17. ASSUME NEW r \in Requests, Abort(r) PROVE Types'
  <2>1. signal' \in [Requests -> Signalled]
    BY <1>17, Literals, Listening DEF Abort, RemoveListener, Signalled, Types
  <2>2. QED
    BY <1>17, <2>1 DEF Abort, Types
<1>18. ASSUME NEW r \in Requests, SnapshotListeners(r) PROVE Types'
  <2>1. signal' \in [Requests -> Signalled]
    BY <1>18, Literals, Listening
       DEF SnapshotListeners, RemoveListener, Signalled, Types
  <2>2. QED
    BY <1>18, <2>1 DEF SnapshotListeners, Types
<1>19. ASSUME NEW r \in Requests, CallListeners(r) PROVE Types'
  <2>1. signal' \in [Requests -> Signalled]
    BY <1>19, Literals, Listening
       DEF CallListeners, RemoveListener, Signalled, Types
  <2>2. request' \in [Requests -> Requested]
    BY <1>19, Literals, ChannelTypes, AttemptTypes, SMTT(60)
       DEF CallListeners, Requested, Types
  <2>3. connection' \in [Requests -> Connected]
    BY <1>19, Literals, ZenonT(60) DEF CallListeners, Connected, Types
  <2>4. QED
    BY <1>19, <2>1, <2>2, <2>3 DEF CallListeners, Types
<1>20. ASSUME NEW r \in Requests, SocketStep(r) PROVE Types'
  <2>1. request' \in [Requests -> Requested]
    BY <1>20, SocketTells
  <2>2. /\ connection' \in [Requests -> Connected]
        /\ UNCHANGED <<pc, cache, entry, signal, outcome>>
    BY <1>20, SocketDoes
  <2>3. QED
    BY <2>1, <2>2 DEF Types
<1>21. ASSUME NEW r \in Requests, TimerFires(r) PROVE Types'
  <2>1. entry' \in [Requests -> Entered]
    BY <1>21, TimerDoes
  <2>2. QED
    BY <1>21, <2>1 DEF TimerFires, Types
<1>22. ASSUME NEW r \in Requests, TimerTask(r) PROVE Types'
  <2>1. entry' \in [Requests -> Entered]
    BY <1>22, TimerDoes
  <2>2. connection' \in [Requests -> Connected]
    BY <1>22, CloseTypes DEF TimerTask, Types
  <2>3. cache' \in Owner
    BY <1>22, Literals DEF TimerTask, WithoutEntry, Types
  <2>4. QED
    BY <1>22, <2>1, <2>2, <2>3 DEF TimerTask, Types
<1>23. CASE UNCHANGED vars
  BY <1>23 DEF vars, Types, Early, Opening, Using, Calling, aborted
<1>24. QED
  BY <1>1, <1>2, <1>3, <1>4, <1>5, <1>6, <1>7, <1>8, <1>9, <1>10, <1>11, <1>12,
     <1>13, <1>14, <1>15, <1>16, <1>17, <1>18, <1>19, <1>20, <1>21, <1>22, <1>23
     DEF Next, Advance, Network, Timer, SocketStep

(* Every step keeps Users: acquireCodexWebSocket gives out a cached        *)
(* connection only while its entry is free, and a temporary one is known   *)
(* to its own request only.                                                *)
LEMMA UsersStep ==
  ASSUME Types, Users, [Next]_vars
  PROVE  Users'
<1>1. ASSUME NEW r \in Requests, Begin(r) PROVE Users'
  <2>1. /\ UNCHANGED <<connection, cache, entry>>
        /\ \A s \in Requests \ {r} : pc'[s] = pc[s] /\ request'[s] = request[s]
        /\ \/ /\ pc[r] = "new" /\ pc'[r] \in {"failed", "attempting", "acquiring"}
              /\ request' = request
           \/ pc[r] \in {"complete", "failed"} /\ Begin(r)
           \/ pc[r] = "adding" /\ pc'[r] = "rechecking" /\ request' = request
           \/ /\ pc[r] = "opening" /\ request' = request
              /\ \/ pc'[r] \in {"attempting", "failed"}
                 \/ pc'[r] = "sending" /\ request[r].temporary
                 \/ pc'[r] = "inserting" /\ ~request[r].temporary
    BY <1>1, MovesDo
  <2>2. pc[r] \notin {"complete", "failed"}
    BY <1>1 DEF Begin
  <2>3. QED
    BY <2>1, <2>2, MoveKeepsUsers DEF Early, Opening, Using
<1>2. ASSUME NEW r \in Requests, Finish(r) PROVE Users'
  <2>1. /\ pc[r] \in {"complete", "failed"} /\ pc'[r] = "ended"
        /\ \A s \in Requests \ {r} : pc'[s] = pc[s]
        /\ UNCHANGED <<connection, cache, entry>>
    BY <1>2 DEF Finish, Goto, Types
  <2>2. /\ request'[r].use = NoOne /\ ~request'[r].temporary
        /\ \A s \in Requests \ {r} : request'[s] = request[s]
    BY <1>2, <2>1, MovesDo
  <2>3. \A d \in Requests : Begun(d) => Begun(d)'
    BY <2>1 DEF Begun, Early, Opening
  <2>4. pc'[r] \notin Early \cup Opening \cup Using /\ pc[r] \notin Early \cup Opening \cup Using
    BY <2>1 DEF Early, Opening, Using
  <2>5. Uses'
    <3>1. ASSUME NEW s \in Requests \ {r}, request[s].use \notin {NoOne, s}
          PROVE  pc'[request[s].use] \notin Early \cup Opening
      <4>2. QED
        BY <2>3, <3>1, UseBegun DEF Begun
    <3>2. QED
      BY <2>1, <2>2, <2>4, <3>1 DEF Users, Uses, Opening, Begun
  <2>6. Entries'
    BY <2>1, <2>3 DEF Users, Entries
  <2>7. OneRequestPerConnection'
    BY <2>1, <2>2, <2>4 DEF Users, OneRequestPerConnection
  <2>8. QED
    BY <2>5, <2>6, <2>7 DEF Users
<1>3. ASSUME NEW r \in Requests, Acquire(r) PROVE Users'
  <2>1. /\ pc[r] = "acquiring" /\ \A s \in Requests \ {r} : pc'[s] = pc[s]
        /\ UNCHANGED connection
        /\ \A s \in Requests \ {r} : request'[s] = request[s]
    BY <1>3, AcquireDoes DEF Acquire
  <2>2. pc[r] \in Early /\ ~Begun(r) /\ request[r].use = NoOne
    BY <2>1 DEF Early, Begun, Users, Uses
  <2>3. \A s \in Requests \ {r} : request[s].use # r
    BY <2>2, CodexAssumption DEF Users, Uses, CodexAssumption
  <2>4. pc'[r] \notin Early /\ \A d \in Requests : Begun(d) => Begun(d)'
    <3>1. pc'[r] \in {"sending", "connecting"}
      BY <1>3, AcquireDoes
    <3>2. QED
      BY <2>1, <2>2, <3>1 DEF Begun, Early
  <2>5. \A s \in Requests \ {r} : request[s].use \notin {NoOne, s} =>
          pc'[request[s].use] \notin Early \cup Opening
    <3>1. \A s \in Requests : request[s].use \in Owner
      BY DEF Types, Requested
    <3>2. QED
      BY <2>4, UseBegun DEF Begun
  <2>6. CASE pc'[r] = "sending"
    <3>1. /\ cache \in Requests /\ cache' = cache
          /\ ~entry[cache].busy
          /\ entry'[cache].busy /\ ~entry'[cache].timer
          /\ entry'[cache].task = entry[cache].task
          /\ \A d \in Requests \ {cache} : entry'[d] = entry[d]
          /\ request'[r].use = cache /\ request'[r].temporary = request[r].temporary
      BY <1>3, <2>6, AcquireDoes
    <3>2. Begun(cache) /\ Begun(cache)' /\ cache # r
      BY <2>2, <2>4, <3>1 DEF Users, Entries
    <3>3. \A s \in Requests \ {r} : pc[s] \in Using => request[s].use # cache
      BY <3>1 DEF Users, Uses
    <3>4. pc'[r] \in Using \ Opening /\ pc'[r] # "inserting" /\ pc'[r] \notin Using \ {"sending"}
      BY <2>6 DEF Using, Opening
    <3>5. ~request[r].temporary
      BY <2>2 DEF Users, Uses
    <3>6. Uses'
      <4>1. /\ pc'[r] \notin Early \cup Opening /\ ~request'[r].temporary
            /\ request'[r].use = cache /\ entry'[cache].busy
        BY <2>4, <3>1, <3>4, <3>5
      <4>2. pc'[cache] \notin Early \cup Opening
        BY <3>1, <3>2 DEF Begun
      <4>3. ASSUME NEW s \in Requests \ {r}
            PROVE  /\ pc[s] \in Using /\ ~request[s].temporary =>
                        entry'[request[s].use].busy
                   /\ pc[s] \in Opening \cup Using /\ request[s].temporary =>
                        cache' # s /\ ~entry'[s].timer /\ ~entry'[s].task
        <5>1. pc[s] \in Using => request[s].use \in Requests \ {cache}
          BY <3>3 DEF Users, Uses
        <5>2. pc[s] \in Using /\ ~request[s].temporary => entry'[request[s].use].busy
          BY <3>1, <5>1 DEF Users, Uses
        <5>3. pc[s] \in Opening \cup Using /\ request[s].temporary =>
                cache # s /\ ~entry[s].timer /\ ~entry[s].task
          BY DEF Users, Uses
        <5>4. QED
          BY <3>1, <5>2, <5>3
      <4>4. QED
        BY <2>1, <2>5, <3>1, <4>1, <4>2, <4>3 DEF Users, Uses, Begun
    <3>7. Entries'
      BY <2>4, <3>1, <3>2 DEF Users, Entries
    <3>8. OneRequestPerConnection'
      BY <2>1, <3>1, <3>3, <3>4 DEF Users, OneRequestPerConnection
    <3>9. QED
      BY <3>6, <3>7, <3>8 DEF Users
  <2>7. CASE pc'[r] = "connecting"
    <3>1. /\ request'[r].use = r
          /\ \A d \in Requests : /\ entry'[d].busy = entry[d].busy
                                 /\ entry'[d].task = entry[d].task
                                 /\ entry'[d].timer => entry[d].timer
          /\ cache' \in {cache, NoOne}
      <4>1. /\ request'[r].use = r /\ cache' \in {cache, NoOne}
            /\ \/ /\ cache \in Requests /\ ~entry[cache].busy /\ ~entry'[cache].busy
                  /\ ~entry'[cache].timer /\ entry'[cache].task = entry[cache].task
                  /\ \A d \in Requests \ {cache} : entry'[d] = entry[d]
               \/ entry' = entry
        BY <1>3, <2>7, AcquireDoes
      <4>2. entry \in [Requests -> Entered] /\ entry' \in [Requests -> Entered]
        BY <1>3, AcquireDoes DEF Types
      <4>3. \A d \in Requests : entry[d].busy \in BOOLEAN /\ entry'[d].busy \in BOOLEAN
        BY <4>2 DEF Entered
      <4>4. QED
        BY <4>1, <4>3
    <3>2. pc'[r] \in Opening /\ pc'[r] \notin Early \cup Using /\ pc'[r] # "inserting"
      BY <2>7 DEF Early, Opening, Using
    <3>3. cache' # r /\ ~entry'[r].timer /\ ~entry'[r].task
      BY <2>2, <3>1, CodexAssumption DEF Users, Entries, CodexAssumption
    <3>4. Uses'
      <4>1. ASSUME NEW s \in Requests \ {r}
            PROVE  /\ pc[s] \in Using /\ ~request[s].temporary =>
                        entry'[request[s].use].busy
                   /\ pc[s] \in Opening \cup Using /\ request[s].temporary =>
                        cache' # s /\ ~entry'[s].timer /\ ~entry'[s].task
        BY <3>1, CodexAssumption DEF Users, Uses, CodexAssumption
      <4>2. QED
        BY <2>1, <2>5, <3>1, <3>2, <3>3, <4>1 DEF Users, Uses, Begun
    <3>5. Entries'
      BY <2>4, <3>1, CodexAssumption DEF Users, Entries, CodexAssumption
    <3>6. OneRequestPerConnection'
      BY <2>1, <3>2 DEF Users, OneRequestPerConnection
    <3>7. QED
      BY <3>4, <3>5, <3>6 DEF Users
  <2>8. QED
    BY <1>3, <2>6, <2>7, AcquireDoes
<1>4. ASSUME NEW r \in Requests, Connect(r) PROVE Users'
  <2>1. /\ pc[r] = "connecting" /\ pc'[r] \in {"opening", "adding"}
        /\ \A s \in Requests \ {r} : pc'[s] = pc[s]
        /\ UNCHANGED <<request, cache, entry>>
    BY <1>4 DEF Connect, Goto, Types
  <2>2. \A c \in Requests : connection'[c].reader = connection[c].reader
    BY <1>4, ConnectDoes
  <2>3. QED
    BY <2>1, <2>2, MoveKeepsUsers DEF Early, Opening, Using
<1>5. ASSUME NEW r \in Requests, AddListener(r) PROVE Users'
  <2>1. /\ UNCHANGED <<connection, cache, entry>>
        /\ \A s \in Requests \ {r} : pc'[s] = pc[s] /\ request'[s] = request[s]
        /\ \/ /\ pc[r] = "new" /\ pc'[r] \in {"failed", "attempting", "acquiring"}
              /\ request' = request
           \/ pc[r] \in {"complete", "failed"} /\ AddListener(r)
           \/ pc[r] = "adding" /\ pc'[r] = "rechecking" /\ request' = request
           \/ /\ pc[r] = "opening" /\ request' = request
              /\ \/ pc'[r] \in {"attempting", "failed"}
                 \/ pc'[r] = "sending" /\ request[r].temporary
                 \/ pc'[r] = "inserting" /\ ~request[r].temporary
    BY <1>5, MovesDo
  <2>2. pc[r] \notin {"complete", "failed"}
    BY <1>5 DEF AddListener
  <2>3. QED
    BY <2>1, <2>2, MoveKeepsUsers DEF Early, Opening, Using
<1>6. ASSUME NEW r \in Requests, RecheckFlag(r) PROVE Users'
  <2>1. /\ pc[r] = "rechecking" /\ pc'[r] = "opening"
        /\ \A s \in Requests \ {r} : pc'[s] = pc[s]
        /\ UNCHANGED <<request, cache, entry>>
    BY <1>6 DEF RecheckFlag, Goto, Types
  <2>2. \A c \in Requests : connection'[c].reader = connection[c].reader
    BY <1>6, CloseTypes DEF RecheckFlag
  <2>3. QED
    BY <2>1, <2>2, MoveKeepsUsers DEF Early, Opening, Using
<1>7. ASSUME NEW r \in Requests, AwaitOpen(r) PROVE Users'
  <2>1. /\ UNCHANGED <<connection, cache, entry>>
        /\ \A s \in Requests \ {r} : pc'[s] = pc[s] /\ request'[s] = request[s]
        /\ \/ /\ pc[r] = "new" /\ pc'[r] \in {"failed", "attempting", "acquiring"}
              /\ request' = request
           \/ pc[r] \in {"complete", "failed"} /\ AwaitOpen(r)
           \/ pc[r] = "adding" /\ pc'[r] = "rechecking" /\ request' = request
           \/ /\ pc[r] = "opening" /\ request' = request
              /\ \/ pc'[r] \in {"attempting", "failed"}
                 \/ pc'[r] = "sending" /\ request[r].temporary
                 \/ pc'[r] = "inserting" /\ ~request[r].temporary
    BY <1>7, MovesDo
  <2>2. pc[r] \notin {"complete", "failed"}
    BY <1>7 DEF AwaitOpen
  <2>3. QED
    BY <2>1, <2>2, MoveKeepsUsers DEF Early, Opening, Using
<1>8. ASSUME NEW r \in Requests, Insert(r) PROVE Users'
  <2>1. /\ pc[r] = "inserting" /\ pc'[r] = "sending"
        /\ \A s \in Requests \ {r} : pc'[s] = pc[s]
        /\ UNCHANGED <<request, connection>> /\ cache' = r
    BY <1>8 DEF Insert, Goto, Types
  <2>2. /\ entry'[r].busy
        /\ entry'[r].timer = entry[r].timer /\ entry'[r].task = entry[r].task
        /\ \A d \in Requests \ {r} : entry'[d] = entry[d]
    BY <1>8, InsertDoes
  <2>3. \A d \in Requests : Begun(d) => Begun(d)'
    BY <2>1 DEF Begun, Early, Opening
  <2>4. /\ pc[r] \in Opening /\ pc'[r] \in Using \ Opening /\ Begun(r)' /\ ~Begun(r)
        /\ request[r].use = r /\ ~request[r].temporary /\ ~entry[r].timer
    BY <2>1 DEF Begun, Early, Opening, Using, Users, Uses, Entries
  <2>5. \A s \in Requests \ {r} : request[s].use # r
    BY <2>4, CodexAssumption DEF Users, Uses, CodexAssumption
  <2>6. Uses'
    <3>1. ASSUME NEW s \in Requests \ {r}, request[s].use \notin {NoOne, s}
          PROVE  pc'[request[s].use] \notin Early \cup Opening
      <4>2. QED
        BY <2>3, <3>1, UseBegun DEF Begun
    <3>2. ASSUME NEW s \in Requests \ {r}
          PROVE  /\ pc[s] \in Using /\ ~request[s].temporary => entry'[request[s].use].busy
                 /\ pc[s] \in Opening \cup Using /\ request[s].temporary =>
                      cache' # s /\ ~entry'[s].timer /\ ~entry'[s].task
      BY <2>1, <2>2, <2>5 DEF Users, Uses
    <3>3. pc'[r] \notin Early /\ pc'[r] # "inserting"
      BY <2>1 DEF Early
    <3>4. QED
      BY <2>1, <2>2, <2>4, <3>1, <3>2, <3>3 DEF Users, Uses, Begun
  <2>7. Entries'
    BY <2>1, <2>2, <2>3, <2>4 DEF Users, Entries
  <2>8. OneRequestPerConnection'
    BY <2>1, <2>4, <2>5 DEF Users, OneRequestPerConnection
  <2>9. QED
    BY <2>6, <2>7, <2>8 DEF Users
<1>9. ASSUME NEW r \in Requests, Send(r) PROVE Users'
  <2>1. ASSUME GiveUp(r), connection[request[r].use].closed PROVE Users'
    BY <1>9, <2>1, GiveUpLeaves, LeaveKeepsUsers DEF Early, Opening, Using
  <2>2. CASE ~connection[request[r].use].closed
    <3> DEFINE c == request[r].use
    <3>1. pc[r] = "sending" /\ pc[r] \in Using /\ c \in Requests
      BY <1>9 DEF Send, Users, Uses, Using
    <3> HIDE DEF c
    <3>2. /\ \A s \in Requests : /\ request'[s].use = request[s].use
                                 /\ request'[s].temporary = request[s].temporary
          /\ connection'[c].reader = r
          /\ \A d \in Requests : /\ entry'[d].busy = entry[d].busy
                                 /\ entry'[d].timer = entry[d].timer
                                 /\ entry'[d].task = entry[d].task
          /\ \A d \in Requests \ {c} : connection'[d] = connection[d]
          /\ cache' = cache
          /\ pc'[r] = "checking" /\ \A s \in Requests \ {r} : pc'[s] = pc[s]
      BY <1>9, <2>2, <3>1, SendDoes DEF c, Types
    <3>3. \A d \in Requests : Begun(d) => Begun(d)'
      BY <3>1, <3>2 DEF Begun, Early, Opening
    <3>4. \A s \in Requests : /\ pc'[s] \in Using <=> pc[s] \in Using
                              /\ pc'[s] \in Opening <=> pc[s] \in Opening
                              /\ pc'[s] \in Early <=> pc[s] \in Early
                              /\ pc'[s] = "inserting" <=> pc[s] = "inserting"
      BY <3>1, <3>2 DEF Early, Opening, Using
    <3>5. Uses'
      <4> SUFFICES ASSUME NEW s \in Requests
                   PROVE  /\ pc[s] \in Early =>
                               request[s].use = NoOne /\ ~request[s].temporary
                          /\ pc[s] \in Opening => request[s].use = s
                          /\ pc[s] \in Using => request[s].use \in Requests
                          /\ request[s].use \notin {NoOne, s} =>
                               pc'[request[s].use] \notin Early \cup Opening
                          /\ pc[s] \in Using /\ request[s].temporary => request[s].use = s
                          /\ pc[s] \in Using /\ ~request[s].temporary =>
                               entry'[request[s].use].busy
                          /\ pc[s] \in Opening \cup Using /\ request[s].temporary =>
                               cache # s /\ ~entry[s].timer /\ ~entry[s].task
                          /\ pc[s] = "inserting" => ~request[s].temporary
        BY <3>2, <3>4 DEF Uses, Begun
      <4>1. request[s].use \in Owner
        BY DEF Types, Requested
      <4>2. request[s].use \notin {NoOne, s} =>
              pc'[request[s].use] \notin Early \cup Opening
        BY <3>3, UseBegun DEF Begun
      <4>3. pc[s] \in Using /\ ~request[s].temporary => entry'[request[s].use].busy
        BY <3>2 DEF Users, Uses
      <4>4. QED
        BY <4>2, <4>3 DEF Users, Uses
    <3>6. Entries'
      BY <3>2, <3>3 DEF Users, Entries
    <3>7. \A s \in Requests \ {r} : pc[s] \in Using => request[s].use # c
      BY <3>1 DEF Users, OneRequestPerConnection, c
    <3>8. \A s \in Requests : pc'[s] \in Using \ {"sending"} =>
            connection'[request[s].use].reader = s
      BY <3>1, <3>2, <3>7 DEF Users, Uses, OneRequestPerConnection, c
    <3>9. OneRequestPerConnection'
      BY <3>2, <3>4, <3>8 DEF Users, OneRequestPerConnection
    <3>10. QED
      BY <3>5, <3>6, <3>9 DEF Users
  <2>3. QED
    BY <1>9, <2>1, <2>2 DEF Send
<1>10. ASSUME NEW r \in Requests, CheckAborted(r) \/ Receive(r) PROVE Users'
  <2>1. ASSUME GiveUp(r) PROVE Users'
    BY <1>10, <2>1, GiveUpLeaves, LeaveKeepsUsers DEF Early, Opening, Using
  <2>2. ASSUME ~GiveUp(r) PROVE Users'
    <3>1. /\ UNCHANGED <<connection, cache, entry>>
          /\ pc[r] \in {"checking", "receiving"}
          /\ pc'[r] \in {"checking", "receiving", "awaiting"}
          /\ \A s \in Requests \ {r} : pc'[s] = pc[s]
          /\ \A s \in Requests : /\ request'[s].use = request[s].use
                                 /\ request'[s].temporary = request[s].temporary
      BY <1>10, <2>2, StaysDo
    <3>2. QED
      BY <3>1, MoveKeepsUsers DEF Early, Opening, Using
  <2>3. QED
    BY <2>1, <2>2
<1>11. ASSUME NEW r \in Requests, AwaitCompletion(r) PROVE Users'
  <2>1. ASSUME GiveUp(r) PROVE Users'
    BY <1>11, <2>1, GiveUpLeaves, LeaveKeepsUsers DEF Early, Opening, Using
  <2>2. ASSUME ~GiveUp(r) PROVE Users'
    BY <1>11, <2>2, ReleaseLeaves, LeaveKeepsUsers DEF Early, Opening, Using
  <2>3. QED
    BY <2>1, <2>2
<1>12. ASSUME NEW r \in Requests,
              Attempt(r) \/ SetActiveCall(r) \/ Execute(r) \/ Read(r)
      PROVE  Users'
  <2>1. /\ pc[r] \in Calling /\ pc'[r] \in Calling \cup {"complete", "failed"}
        /\ \A s \in Requests \ {r} : pc'[s] = pc[s]
        /\ \A s \in Requests : /\ request'[s].use = request[s].use
                               /\ request'[s].temporary = request[s].temporary
        /\ UNCHANGED <<connection, cache, entry>>
    BY <1>12, CallingDoes
  <2>2. QED
    BY <2>1, MoveKeepsUsers DEF Early, Opening, Using, Calling
<1>13. ASSUME NEW r \in Requests,
              Abort(r) \/ SnapshotListeners(r) \/ CallListeners(r)
      PROVE  Users'
  <2>1. /\ UNCHANGED <<pc, cache, entry>>
        /\ \A s \in Requests : /\ request'[s].use = request[s].use
                               /\ request'[s].temporary = request[s].temporary
        /\ \A c \in Requests : connection'[c].reader = connection[c].reader
    BY <1>13, SignalDoes
  <2>2. QED
    BY <2>1, StayKeepsUsers
<1>14. ASSUME NEW r \in Requests, SocketStep(r) PROVE Users'
  <2>1. UNCHANGED <<pc, cache, entry>>
    BY <1>14, SocketDoes
  <2>2. \A s \in Requests : /\ request'[s].use = request[s].use
                            /\ request'[s].temporary = request[s].temporary
    BY <1>14, SocketTells
  <2>3. \A c \in Requests : connection'[c].reader = connection[c].reader
    BY <1>14, SocketDoes
  <2>4. QED
    BY <2>1, <2>2, <2>3, StayKeepsUsers
<1>15. ASSUME NEW r \in Requests, TimerFires(r) PROVE Users'
  <2>1. /\ UNCHANGED <<pc, request>> /\ cache' \in {cache, NoOne}
    BY <1>15 DEF TimerFires, WithoutEntry
  <2>2. /\ entry'[r].busy = entry[r].busy
        /\ \A d \in Requests \ {r} : entry'[d] = entry[d]
        /\ entry'[r].timer \/ entry'[r].task => entry[r].timer \/ entry[r].task
        /\ entry'[r].timer => entry[r].timer
    <3>1. TimerFires(r) => entry[r].timer \/ TimerTask(r)
      BY DEF TimerFires
    <3>2. QED
      BY <1>15, <3>1, TimerDoes
  <2>3. \A c \in Requests : connection'[c].reader = connection[c].reader
    BY <1>15 DEF TimerFires
  <2>4. Uses'
    <3>1. \A s \in Requests : request[s].use \in Owner
      BY DEF Types, Requested
    <3>2. \A d \in Requests : Begun(d) => Begun(d)'
      BY <2>1 DEF Begun
    <3>3. ASSUME NEW s \in Requests, pc[s] \in Using, ~request[s].temporary
          PROVE  entry'[request[s].use].busy
      BY <2>2, <3>3 DEF Users, Uses
    <3>4. ASSUME NEW s \in Requests, pc[s] \in Opening \cup Using, request[s].temporary
          PROVE  cache' # s /\ ~entry'[s].timer /\ ~entry'[s].task
      BY <2>1, <2>2, <3>4, CodexAssumption DEF Users, Uses, CodexAssumption
    <3>5. ASSUME NEW s \in Requests, request[s].use \notin {NoOne, s}
          PROVE  pc'[request[s].use] \notin Early \cup Opening
      BY <3>2, <3>5, UseBegun DEF Begun
    <3>6. QED
      BY <2>1, <3>3, <3>4, <3>5 DEF Users, Uses, Begun
  <2>5. Entries'
    BY <2>1, <2>2, CodexAssumption DEF Users, Entries, Begun, CodexAssumption
  <2>6. OneRequestPerConnection'
    BY <2>1, <2>3 DEF Users, Uses, OneRequestPerConnection
  <2>7. QED
    BY <2>4, <2>5, <2>6 DEF Users
<1>16. ASSUME NEW r \in Requests, TimerTask(r) PROVE Users'
  <2>1. /\ UNCHANGED <<pc, request>> /\ cache' \in {cache, NoOne}
    BY <1>16 DEF TimerTask, WithoutEntry
  <2>2. /\ entry'[r].busy = entry[r].busy
        /\ \A d \in Requests \ {r} : entry'[d] = entry[d]
        /\ entry'[r].timer \/ entry'[r].task => entry[r].timer \/ entry[r].task
        /\ entry'[r].timer => entry[r].timer
    <3>1. entry[r].task
      BY <1>16 DEF TimerTask
    <3>2. QED
      BY <1>16, <3>1, TimerDoes
  <2>3. \A c \in Requests : connection'[c].reader = connection[c].reader
    BY <1>16, CloseTypes DEF TimerTask
  <2>4. Uses'
    <3>1. \A s \in Requests : request[s].use \in Owner
      BY DEF Types, Requested
    <3>2. \A d \in Requests : Begun(d) => Begun(d)'
      BY <2>1 DEF Begun
    <3>3. ASSUME NEW s \in Requests, pc[s] \in Using, ~request[s].temporary
          PROVE  entry'[request[s].use].busy
      BY <2>2, <3>3 DEF Users, Uses
    <3>4. ASSUME NEW s \in Requests, pc[s] \in Opening \cup Using, request[s].temporary
          PROVE  cache' # s /\ ~entry'[s].timer /\ ~entry'[s].task
      BY <2>1, <2>2, <3>4, CodexAssumption DEF Users, Uses, CodexAssumption
    <3>5. ASSUME NEW s \in Requests, request[s].use \notin {NoOne, s}
          PROVE  pc'[request[s].use] \notin Early \cup Opening
      BY <3>2, <3>5, UseBegun DEF Begun
    <3>6. QED
      BY <2>1, <3>3, <3>4, <3>5 DEF Users, Uses, Begun
  <2>5. Entries'
    BY <2>1, <2>2, CodexAssumption DEF Users, Entries, Begun, CodexAssumption
  <2>6. OneRequestPerConnection'
    BY <2>1, <2>3 DEF Users, Uses, OneRequestPerConnection
  <2>7. QED
    BY <2>4, <2>5, <2>6 DEF Users
<1>17. CASE UNCHANGED vars
  BY <1>17
     DEF vars, Types, Users, Uses, Entries, OneRequestPerConnection, Begun,
         Early, Opening, Using, Calling, aborted
<1>18. QED
  BY <1>1, <1>2, <1>3, <1>4, <1>5, <1>6, <1>7, <1>8, <1>9, <1>10, <1>11, <1>12,
     <1>13, <1>14, <1>15, <1>16, <1>17 DEF Next, Advance, Network, Timer, SocketStep

(* Every step keeps Sockets.                                               *)
LEMMA SocketsStep ==
  ASSUME Types, Users, Sockets, [Next]_vars
  PROVE  Sockets'
<1>1. ASSUME NEW r \in Requests,
              Begin(r) \/ Finish(r) \/ AddListener(r) \/ AwaitOpen(r)
      PROVE  Sockets'
  <2>1. /\ UNCHANGED <<connection, cache>>
        /\ \A s \in Requests \ {r} : pc'[s] = pc[s] /\ request'[s] = request[s]
        /\ \/ /\ pc[r] = "new" /\ pc'[r] \in {"failed", "attempting", "acquiring"}
           \/ pc'[r] = "ended"
           \/ pc[r] = "adding" /\ pc'[r] = "rechecking"
           \/ /\ pc[r] = "opening" /\ request' = request
              /\ pc'[r] \in {"attempting", "failed", "sending", "inserting"}
    BY <1>1, MovesDo
  <2>2. pc[r] = "opening" => request[r].use = r
    BY DEF Opening, Users, Uses
  <2>3. /\ pc'[r] \in Early \cup {"connecting"} => connection[r].socket = "none"
        /\ pc'[r] \in Opening \ {"connecting"} => connection[r].socket # "none"
        /\ pc'[r] \in Using => connection[request'[r].use].socket # "none"
    BY <2>1, <2>2 DEF Sockets, Early, Opening, Using
  <2>4. QED
    BY <2>1, <2>3, MoveKeepsSockets DEF Sockets
<1>2. ASSUME NEW r \in Requests, Acquire(r) PROVE Sockets'
  <2>1. /\ pc[r] = "acquiring" /\ \A s \in Requests \ {r} : pc'[s] = pc[s]
        /\ \A s \in Requests \ {r} : request'[s] = request[s]
        /\ cache' \in {cache, NoOne}
        /\ \/ pc'[r] = "sending" /\ cache \in Requests /\ request'[r].use = cache
           \/ pc'[r] = "connecting"
    BY <1>2, AcquireDoes
  <2>2. UNCHANGED connection
    BY <1>2 DEF Acquire
  <2>3. /\ pc'[r] \in Early \cup {"connecting"} => connection[r].socket = "none"
        /\ pc'[r] \notin Opening \ {"connecting"}
        /\ pc'[r] \in Using => connection[request'[r].use].socket # "none"
    BY <2>1 DEF Sockets, Early, Opening, Using
  <2>4. \A c \in Requests : cache' = c => cache = c
    BY <2>1, CodexAssumption DEF CodexAssumption
  <2>5. QED
    BY <2>1, <2>2, <2>3, <2>4, MoveKeepsSockets DEF Sockets
<1>3. ASSUME NEW r \in Requests, Connect(r) PROVE Sockets'
  <2>1. /\ pc[r] = "connecting" /\ pc'[r] \in {"opening", "adding"}
        /\ \A s \in Requests \ {r} : pc'[s] = pc[s]
        /\ UNCHANGED <<request, cache>>
    BY <1>3 DEF Connect, Goto, Types
  <2>2. /\ connection'[r].socket = "connecting"
        /\ connection'[r].opened = connection[r].opened
        /\ connection'[r].reader = connection[r].reader
        /\ \A d \in Requests \ {r} : connection'[d] = connection[d]
    BY <1>3, ConnectDoes
  <2>3. connection[r].opened = "no"
    BY <2>1 DEF Sockets
  <2>4. pc'[r] \notin Early \cup {"connecting"} \cup Using
    BY <2>1 DEF Early, Using
  <2>5. QED
    BY <2>1, <2>2, <2>3, <2>4, MoveKeepsSockets DEF Sockets
<1>4. ASSUME NEW r \in Requests, RecheckFlag(r) PROVE Sockets'
  <2>1. /\ pc[r] = "rechecking" /\ pc'[r] = "opening"
        /\ \A s \in Requests \ {r} : pc'[s] = pc[s]
        /\ UNCHANGED <<request, cache>>
    BY <1>4 DEF RecheckFlag, Goto, Types
  <2>2. \A c \in Requests : /\ connection'[c].socket = connection[c].socket
                            /\ connection'[c].opened = connection[c].opened
                            /\ connection'[c].reader = connection[c].reader
                            /\ connection[c].closed => connection'[c].closed
    BY <1>4, CloseTypes DEF RecheckFlag
  <2>3. pc'[r] \notin Early \cup {"connecting"} \cup Using /\ connection[r].socket # "none"
    BY <2>1 DEF Early, Using, Opening, Sockets
  <2>4. \A c \in Requests : connection'[c].opened = "failed" => connection'[c].closed
    BY <2>2 DEF Sockets
  <2>5. connection'[r].socket # "none"
    BY <2>2, <2>3
  <2>6. QED
    BY <2>1, <2>2, <2>3, <2>4, <2>5, MoveKeepsSockets
<1>5. ASSUME NEW r \in Requests, Insert(r) PROVE Sockets'
  <2>1. /\ pc[r] = "inserting" /\ pc'[r] = "sending"
        /\ \A s \in Requests \ {r} : pc'[s] = pc[s]
        /\ UNCHANGED <<request, connection>> /\ cache' = r
    BY <1>5 DEF Insert, Goto, Types
  <2>2. connection[r].socket # "none" /\ request[r].use = r
    BY <2>1 DEF Opening, Sockets, Users, Uses
  <2>3. pc'[r] \notin Early \cup {"connecting"} \cup Opening
    BY <2>1 DEF Early, Opening
  <2>4. QED
    BY <2>1, <2>2, <2>3, MoveKeepsSockets DEF Sockets
<1>6. ASSUME NEW r \in Requests, Send(r) PROVE Sockets'
  <2>1. ASSUME GiveUp(r), connection[request[r].use].closed PROVE Sockets'
    <3>1. PICK c \in Requests :
            /\ c = request[r].use /\ pc[r] \in Using
            /\ connection'[c].closed /\ connection'[c].reader = NoOne
            /\ connection'[c].socket = connection[c].socket
            /\ connection'[c].opened = connection[c].opened
            /\ \A d \in Requests \ {c} : connection'[d] = connection[d]
            /\ cache' \in {cache, NoOne}
            /\ pc'[r] \in {"attempting", "failed"}
            /\ \A s \in Requests \ {r} : pc'[s] = pc[s]
            /\ \A s \in Requests : request'[s].use = request[s].use
      BY <1>6, <2>1, GiveUpLeaves
    <3>2. pc'[r] \notin Early \cup Opening \cup Using /\ pc'[r] # "connecting"
      BY <3>1 DEF Early, Opening, Using
    <3>3. \A d \in Requests : cache' = d => cache = d
      BY <3>1, CodexAssumption, SMTT(30), ZenonT(60) DEF CodexAssumption
    <3>4. QED
      BY <3>1, <3>2, <3>3, MoveKeepsSockets DEF Sockets
  <2>2. ASSUME ~connection[request[r].use].closed PROVE Sockets'
    <3>1. pc[r] = "sending" /\ pc[r] \in Using
      BY <1>6 DEF Send, Using
    <3>2. PICK c \in Requests : c = request[r].use
      BY <3>1 DEF Users, Uses
    <3>3. /\ \A s \in Requests \ {r} : request'[s] = request[s] /\ pc'[s] = pc[s]
          /\ request'[r].use = c /\ pc'[r] = "checking"
          /\ connection'[c].reader = r
          /\ connection'[c].socket = connection[c].socket
          /\ connection'[c].opened = connection[c].opened
          /\ connection'[c].closed = connection[c].closed
          /\ entry'[c].busy = entry[c].busy /\ entry'[c].timer = entry[c].timer
          /\ entry'[c].task = entry[c].task
          /\ \A d \in Requests \ {c} : connection'[d] = connection[d] /\ entry'[d] = entry[d]
          /\ cache' = cache
      BY <1>6, <2>2, <3>2, SendDoes DEF Types
    <3>4. pc'[r] \in Using /\ pc'[r] \notin Early \cup Opening \cup Calling \cup {"connecting"}
      BY <3>3 DEF Early, Opening, Using, Calling
    <3>5. connection[c].socket # "none"
      BY <3>1, <3>2 DEF Sockets
    <3>6. \A s \in Requests \ {r} : pc'[s] = pc[s] /\ request'[s].use = request[s].use
      BY <3>3, Zenon
    <3>7. \A d \in Requests :
            /\ connection'[d].socket = connection[d].socket
            /\ connection'[d].opened = connection[d].opened
            /\ connection'[d].closed = connection[d].closed
            /\ connection'[d].reader # NoOne => connection[d].reader # NoOne \/ d = c
      <4>1. ASSUME NEW d \in Requests, d # c PROVE connection'[d] = connection[d]
        BY <3>3, <4>1, Zenon
      <4>2. QED
        BY <3>3, <4>1, Zenon
    <3>8. \A d \in Requests :
            /\ connection'[d].opened = "failed" => connection'[d].closed
            /\ connection'[d].opened # "no" =>
                 connection[d].opened # "no" \/ connection'[d].socket # "none"
            /\ connection[d].socket # "none" => connection'[d].socket # "none"
            /\ connection[d].socket = "none" => connection'[d].socket = "none" \/ d = r
            /\ connection'[d].reader # NoOne =>
                 connection[d].reader # NoOne \/ connection'[d].socket # "none"
            /\ cache' = d => cache = d \/ connection'[d].socket # "none"
      <4> SUFFICES ASSUME NEW d \in Requests
                   PROVE  /\ connection'[d].opened = "failed" => connection'[d].closed
                          /\ connection'[d].opened # "no" =>
                               connection[d].opened # "no" \/ connection'[d].socket # "none"
                          /\ connection[d].socket # "none" => connection'[d].socket # "none"
                          /\ connection[d].socket = "none" =>
                               connection'[d].socket = "none" \/ d = r
                          /\ connection'[d].reader # NoOne =>
                               connection[d].reader # NoOne \/ connection'[d].socket # "none"
                          /\ cache' = d => cache = d \/ connection'[d].socket # "none"
        OBVIOUS
      <4>1. connection[d].opened = "failed" => connection[d].closed
        BY Zenon DEF Sockets
      <4>2. /\ connection'[d].socket = connection[d].socket
            /\ connection'[d].opened = connection[d].opened
            /\ connection'[d].closed = connection[d].closed
            /\ connection'[d].reader # NoOne => connection[d].reader # NoOne \/ d = c
        BY <3>7, Zenon
      <4>3. d = c => connection[d].socket # "none"
        BY <3>5, Zenon
      <4>4. cache' = cache
        BY <3>3
      <4>5. QED
        BY <4>1, <4>2, <4>3, <4>4, Zenon
    <3>9. /\ pc'[r] \notin Early \cup {"connecting"} /\ pc'[r] \notin Opening
          /\ pc[r] \in Using /\ request'[r].use = request[r].use
      BY <3>1, <3>2, <3>3, <3>4, Zenon
    <3>10. QED
      BY <3>6, <3>8, <3>9, MoveKeepsSockets, SMTT(30), ZenonT(60)
  <2>3. QED
    BY <1>6, <2>1, <2>2 DEF Send
<1>7. ASSUME NEW r \in Requests, CheckAborted(r) \/ Receive(r) PROVE Sockets'
  <2>1. ASSUME GiveUp(r) PROVE Sockets'
    <3>1. PICK c \in Requests :
            /\ c = request[r].use /\ pc[r] \in Using
            /\ connection'[c].closed /\ connection'[c].reader = NoOne
            /\ connection'[c].socket = connection[c].socket
            /\ connection'[c].opened = connection[c].opened
            /\ \A d \in Requests \ {c} : connection'[d] = connection[d]
            /\ cache' \in {cache, NoOne}
            /\ pc'[r] \in {"attempting", "failed"}
            /\ \A s \in Requests \ {r} : pc'[s] = pc[s]
            /\ \A s \in Requests : request'[s].use = request[s].use
      BY <1>7, <2>1, GiveUpLeaves
    <3>2. pc'[r] \notin Early \cup Opening \cup Using /\ pc'[r] # "connecting"
      BY <3>1 DEF Early, Opening, Using
    <3>3. \A d \in Requests : cache' = d => cache = d
      BY <3>1, CodexAssumption DEF CodexAssumption
    <3>4. QED
      BY <3>1, <3>2, <3>3, MoveKeepsSockets DEF Sockets
  <2>2. ASSUME ~GiveUp(r) PROVE Sockets'
    <3>1. /\ UNCHANGED <<connection, cache>>
          /\ pc[r] \in {"checking", "receiving"}
          /\ pc'[r] \in {"checking", "receiving", "awaiting"}
          /\ \A s \in Requests \ {r} : pc'[s] = pc[s]
          /\ \A s \in Requests : request'[s].use = request[s].use
      BY <1>7, <2>2, StaysDo
    <3>2. pc[r] \in Using /\ pc'[r] \notin Early \cup {"connecting"} \cup Opening
      BY <3>1 DEF Early, Opening, Using
    <3>3. QED
      BY <3>1, <3>2, MoveKeepsSockets DEF Sockets
  <2>3. QED
    BY <2>1, <2>2
<1>8. ASSUME NEW r \in Requests, AwaitCompletion(r) PROVE Sockets'
  <2>1. ASSUME GiveUp(r) PROVE Sockets'
    <3>1. PICK c \in Requests :
            /\ c = request[r].use /\ pc[r] \in Using
            /\ connection'[c].closed /\ connection'[c].reader = NoOne
            /\ connection'[c].socket = connection[c].socket
            /\ connection'[c].opened = connection[c].opened
            /\ \A d \in Requests \ {c} : connection'[d] = connection[d]
            /\ cache' \in {cache, NoOne}
            /\ pc'[r] \in {"attempting", "failed"}
            /\ \A s \in Requests \ {r} : pc'[s] = pc[s]
            /\ \A s \in Requests : request'[s].use = request[s].use
      BY <1>8, <2>1, GiveUpLeaves
    <3>2. pc'[r] \notin Early \cup Opening \cup Using /\ pc'[r] # "connecting"
      BY <3>1 DEF Early, Opening, Using
    <3>3. \A d \in Requests : cache' = d => cache = d
      BY <3>1, CodexAssumption DEF CodexAssumption
    <3>4. QED
      BY <3>1, <3>2, <3>3, MoveKeepsSockets DEF Sockets
  <2>2. ASSUME ~GiveUp(r) PROVE Sockets'
    <3>1. PICK c \in Requests :
            /\ c = request[r].use /\ pc[r] \in Using
            /\ connection'[c].reader = NoOne
            /\ connection'[c].socket = connection[c].socket
            /\ connection'[c].opened = connection[c].opened
            /\ connection[c].closed => connection'[c].closed
            /\ \A d \in Requests \ {c} : connection'[d] = connection[d]
            /\ cache' \in {cache, NoOne}
            /\ pc'[r] = "complete"
            /\ \A s \in Requests \ {r} : pc'[s] = pc[s]
            /\ UNCHANGED request
      BY <1>8, <2>2, ReleaseLeaves
    <3>2. pc'[r] \notin Early \cup Opening \cup Using /\ pc'[r] # "connecting"
      BY <3>1 DEF Early, Opening, Using
    <3>3. \A d \in Requests : cache' = d => cache = d
      BY <3>1, CodexAssumption DEF CodexAssumption
    <3>4. QED
      BY <3>1, <3>2, <3>3, MoveKeepsSockets DEF Sockets
  <2>3. QED
    BY <2>1, <2>2
<1>9. ASSUME NEW r \in Requests,
              Attempt(r) \/ SetActiveCall(r) \/ Execute(r) \/ Read(r)
      PROVE  Sockets'
  <2>1. /\ pc'[r] \in Calling \cup {"complete", "failed"}
        /\ \A s \in Requests \ {r} : pc'[s] = pc[s]
        /\ \A s \in Requests : request'[s].use = request[s].use
        /\ UNCHANGED <<connection, cache>>
    BY <1>9, CallingDoes
  <2>2. pc'[r] \notin Early \cup Opening \cup Using \cup {"connecting"}
    BY <2>1 DEF Early, Opening, Using, Calling
  <2>3. QED
    BY <2>1, <2>2, MoveKeepsSockets DEF Sockets
<1>10. ASSUME NEW r \in Requests,
              Abort(r) \/ SnapshotListeners(r) \/ CallListeners(r)
      PROVE  Sockets'
  <2>1. /\ UNCHANGED <<pc, cache>>
        /\ \A s \in Requests : request'[s].use = request[s].use
        /\ \A c \in Requests : /\ connection'[c].reader = connection[c].reader
                               /\ connection'[c].socket = connection[c].socket
                               /\ connection'[c].opened = connection[c].opened
                               /\ connection[c].closed => connection'[c].closed
    BY <1>10, SignalDoes
  <2>2. /\ pc'[r] \in Early \cup {"connecting"} => connection'[r].socket = "none"
        /\ pc'[r] \in Opening \ {"connecting"} => connection'[r].socket # "none"
    BY <2>1 DEF Sockets
  <2>3. QED
    BY <2>1, <2>2, MoveKeepsSockets DEF Sockets
<1>11. ASSUME NEW r \in Requests, SocketStep(r) PROVE Sockets'
  <2>1. /\ UNCHANGED <<pc, cache>>
        /\ connection[r].socket # "none" \/ connection'[r].socket = "none"
        /\ connection'[r].socket # "none" \/ connection[r].socket = "none"
        /\ connection[r].closed => connection'[r].closed
        /\ connection'[r].opened = "failed" =>
              connection[r].opened = "failed" \/ connection'[r].closed
        /\ connection'[r].opened # "no" =>
              connection[r].opened # "no" \/ connection'[r].socket # "none"
        /\ connection'[r].reader = connection[r].reader
        /\ \A d \in Requests \ {r} : connection'[d] = connection[d]
    BY <1>11, SocketDoes
  <2>2. \A s \in Requests : request'[s].use = request[s].use
    BY <1>11, SocketTells
  <2>3. /\ pc'[r] \in Early \cup {"connecting"} => connection'[r].socket = "none"
        /\ pc'[r] \in Opening \ {"connecting"} => connection'[r].socket # "none"
    BY <2>1 DEF Sockets
  <2>4. QED
    BY <2>1, <2>2, <2>3, MoveKeepsSockets DEF Sockets
<1>12. ASSUME NEW r \in Requests, TimerFires(r) \/ TimerTask(r) PROVE Sockets'
  <2>1. /\ pc' = pc /\ request' = request /\ cache' \in {cache, NoOne}
    BY <1>12 DEF TimerFires, TimerTask, WithoutEntry
  <2>2. \A c \in Requests : /\ connection'[c].socket = connection[c].socket
                            /\ connection'[c].opened = connection[c].opened
                            /\ connection'[c].reader = connection[c].reader
                            /\ connection[c].closed => connection'[c].closed
    BY <1>12, CloseTypes DEF TimerFires, TimerTask
  <2>3. \A d \in Requests : cache' = d => cache = d
    BY <2>1, CodexAssumption DEF CodexAssumption
  <2>4. \A c \in Requests : connection'[c].opened = "failed" => connection'[c].closed
    BY <2>2 DEF Sockets
  <2>5. /\ pc[r] \in Early \cup {"connecting"} => connection[r].socket = "none"
        /\ pc[r] \in Opening \ {"connecting"} => connection[r].socket # "none"
    BY DEF Sockets
  <2>6. /\ pc'[r] \in Early \cup {"connecting"} => connection'[r].socket = "none"
        /\ pc'[r] \in Opening \ {"connecting"} => connection'[r].socket # "none"
    BY <2>1, <2>2, <2>5
  <2>7. QED
    BY <2>1, <2>2, <2>3, <2>4, <2>6, MoveKeepsSockets
<1>13. CASE UNCHANGED vars
  BY <1>13
     DEF vars, Types, Users, Sockets, Early, Opening, Using, Calling, aborted
<1>14. QED
  BY <1>1, <1>2, <1>3, <1>4, <1>5, <1>6, <1>7, <1>8, <1>9, <1>10, <1>11, <1>12,
     <1>13 DEF Next, Advance, Network, Timer, SocketStep

(* Every step keeps Watched: whoever leaves a connection closes it or      *)
(* starts its timer.                                                       *)
LEMMA WatchedStep ==
  ASSUME Types, Users, Sockets, Watched, [Next]_vars
  PROVE  Watched'
<1>1. ASSUME NEW r \in Requests,
              Begin(r) \/ Finish(r) \/ AddListener(r) \/ AwaitOpen(r)
      PROVE  Watched'
  <2>1. /\ UNCHANGED <<connection, entry>>
        /\ \A s \in Requests \ {r} : pc'[s] = pc[s] /\ request'[s] = request[s]
        /\ \/ /\ pc[r] = "new" /\ pc'[r] \in {"failed", "attempting", "acquiring"}
              /\ request' = request
           \/ pc[r] \in {"complete", "failed"} /\ pc'[r] = "ended"
           \/ pc[r] = "adding" /\ pc'[r] = "rechecking" /\ request' = request
           \/ /\ pc[r] = "opening" /\ request' = request
              /\ \/ pc'[r] \in {"attempting", "failed"} /\ connection[r].opened = "failed"
                 \/ pc'[r] \in {"sending", "inserting"}
    BY <1>1, MovesDo
  <2>2. \A c \in Requests : entry[c].busy => Begun(c)
    BY DEF Users, Entries
  <2>3. /\ pc[r] = "new" => request[r].use = NoOne
        /\ pc[r] \in {"adding", "opening"} => request[r].use = r
    BY DEF Early, Opening, Users, Uses
  <2>4. connection[r].opened = "failed" => connection[r].closed
    BY DEF Sockets
  <2>5. QED
    BY <2>1, <2>2, <2>3, <2>4, MoveKeepsWatched
       DEF Begun, Early, Opening, Using, Calling
<1>2. ASSUME NEW r \in Requests, Acquire(r) PROVE Watched'
  <2>1. /\ pc[r] = "acquiring" /\ \A s \in Requests \ {r} : pc'[s] = pc[s]
        /\ \A s \in Requests \ {r} : request'[s] = request[s]
        /\ \/ /\ cache \in Requests
              /\ \A d \in Requests \ {cache} : entry'[d] = entry[d]
              /\ request'[r].use = cache /\ pc'[r] = "sending"
           \/ /\ pc'[r] = "connecting" /\ request'[r].use = r
              /\ \/ /\ cache \in Requests /\ connection[cache].closed
                    /\ ~entry'[cache].busy
                    /\ \A d \in Requests \ {cache} : entry'[d] = entry[d]
                 \/ entry' = entry
    BY <1>2, AcquireDoes
  <2>2. UNCHANGED connection
    BY <1>2 DEF Acquire
  <2>3. \A c \in Requests : entry[c].busy => Begun(c)
    BY DEF Users, Entries
  <2>4. CASE pc'[r] = "sending"
    BY <2>1, <2>2, <2>3, <2>4, MoveKeepsWatched
       DEF Begun, Early, Opening, Using, Calling
  <2>5. CASE pc'[r] = "connecting"
    BY <2>1, <2>2, <2>3, <2>5, MoveKeepsWatched
       DEF Begun, Early, Opening, Using, Calling
  <2>6. QED
    BY <2>1, <2>4, <2>5
<1>3. ASSUME NEW r \in Requests, Connect(r) PROVE Watched'
  <2>1. /\ pc[r] = "connecting" /\ pc'[r] \in {"opening", "adding"}
        /\ \A s \in Requests \ {r} : pc'[s] = pc[s]
        /\ UNCHANGED <<request, entry>>
    BY <1>3 DEF Connect, Goto, Types
  <2>2. \A d \in Requests \ {r} : connection'[d] = connection[d]
    BY <1>3, ConnectDoes
  <2>3. request[r].use = r
    BY <2>1 DEF Opening, Users, Uses
  <2>4. \A c \in Requests : entry[c].busy => Begun(c)
    BY DEF Users, Entries
  <2>5. QED
    BY <2>1, <2>2, <2>3, <2>4, MoveKeepsWatched
       DEF Begun, Early, Opening, Using, Calling
<1>4. ASSUME NEW r \in Requests, RecheckFlag(r) PROVE Watched'
  <2>1. /\ pc[r] = "rechecking" /\ pc'[r] = "opening"
        /\ \A s \in Requests \ {r} : pc'[s] = pc[s]
        /\ UNCHANGED <<request, entry>>
    BY <1>4 DEF RecheckFlag, Goto, Types
  <2>2. \A c \in Requests : /\ connection'[c].socket = connection[c].socket
                            /\ connection[c].closed => connection'[c].closed
    BY <1>4, CloseTypes DEF RecheckFlag
  <2>3. request[r].use = r
    BY <2>1 DEF Opening, Users, Uses
  <2>4. \A c \in Requests : entry[c].busy => Begun(c)
    BY DEF Users, Entries
  <2>5. QED
    BY <2>1, <2>2, <2>3, <2>4, MoveKeepsWatched
       DEF Begun, Early, Opening, Using, Calling
<1>5. ASSUME NEW r \in Requests, Insert(r) PROVE Watched'
  <2>1. /\ pc[r] = "inserting" /\ pc'[r] = "sending"
        /\ \A s \in Requests \ {r} : pc'[s] = pc[s]
        /\ UNCHANGED <<request, connection>>
    BY <1>5 DEF Insert, Goto, Types
  <2>2. \A d \in Requests \ {r} : entry'[d] = entry[d]
    BY <1>5, InsertDoes
  <2>3. request[r].use = r
    BY <2>1 DEF Opening, Users, Uses
  <2>4. \A c \in Requests : entry[c].busy => Begun(c)
    BY DEF Users, Entries
  <2>5. QED
    BY <2>1, <2>2, <2>3, <2>4, MoveKeepsWatched
       DEF Begun, Early, Opening, Using, Calling
<1>6. ASSUME NEW r \in Requests, Send(r) PROVE Watched'
  <2>1. ASSUME GiveUp(r), connection[request[r].use].closed PROVE Watched'
    <3>1. PICK c \in Requests :
            /\ c = request[r].use /\ connection'[c].closed
            /\ connection'[c].socket = connection[c].socket
            /\ \A d \in Requests \ {c} : connection'[d] = connection[d] /\ entry'[d] = entry[d]
            /\ pc'[r] \in {"attempting", "failed"}
            /\ \A s \in Requests \ {r} : pc'[s] = pc[s]
            /\ \A s \in Requests : request'[s].use = request[s].use
      BY <1>6, <2>1, GiveUpLeaves
    <3>2. \A d \in Requests : entry[d].busy => Begun(d)
      BY DEF Users, Entries
    <3>3. QED
      BY <3>1, <3>2, MoveKeepsWatched
  <2>2. ASSUME ~connection[request[r].use].closed PROVE Watched'
    <3>1. pc[r] = "sending" /\ pc[r] \in Using
      BY <1>6 DEF Send, Using
    <3>2. PICK c \in Requests : c = request[r].use
      BY <3>1 DEF Users, Uses
    <3>3. /\ \A s \in Requests \ {r} : request'[s] = request[s] /\ pc'[s] = pc[s]
          /\ request'[r].use = c /\ pc'[r] = "checking"
          /\ connection'[c].reader = r
          /\ connection'[c].socket = connection[c].socket
          /\ connection'[c].opened = connection[c].opened
          /\ connection'[c].closed = connection[c].closed
          /\ entry'[c].busy = entry[c].busy /\ entry'[c].timer = entry[c].timer
          /\ entry'[c].task = entry[c].task
          /\ \A d \in Requests \ {c} : connection'[d] = connection[d] /\ entry'[d] = entry[d]
          /\ cache' = cache
      BY <1>6, <2>2, <3>2, SendDoes DEF Types
    <3>4. pc'[r] \in Using /\ pc'[r] \notin Early \cup Opening \cup Calling \cup {"connecting"}
      BY <3>3 DEF Early, Opening, Using, Calling
    <3>5. \A d \in Requests : entry[d].busy => Begun(d)
      BY DEF Users, Entries
    <3>6. QED
      BY <3>1, <3>2, <3>3, <3>4, <3>5, MoveKeepsWatched, SMTT(30), ZenonT(60)
  <2>3. QED
    BY <1>6, <2>1, <2>2 DEF Send
<1>7. ASSUME NEW r \in Requests, CheckAborted(r) \/ Receive(r) PROVE Watched'
  <2>1. ASSUME GiveUp(r) PROVE Watched'
    <3>1. PICK c \in Requests :
            /\ c = request[r].use /\ connection'[c].closed
            /\ connection'[c].socket = connection[c].socket
            /\ \A d \in Requests \ {c} : connection'[d] = connection[d] /\ entry'[d] = entry[d]
            /\ pc'[r] \in {"attempting", "failed"}
            /\ \A s \in Requests \ {r} : pc'[s] = pc[s]
            /\ \A s \in Requests : request'[s].use = request[s].use
      BY <1>7, <2>1, GiveUpLeaves
    <3>2. \A d \in Requests : entry[d].busy => Begun(d)
      BY DEF Users, Entries
    <3>3. QED
      BY <3>1, <3>2, MoveKeepsWatched
  <2>2. ASSUME ~GiveUp(r) PROVE Watched'
    <3>1. /\ UNCHANGED <<connection, entry>>
          /\ pc[r] \in {"checking", "receiving"}
          /\ pc'[r] \in {"checking", "receiving", "awaiting"}
          /\ \A s \in Requests \ {r} : pc'[s] = pc[s]
          /\ \A s \in Requests : request'[s].use = request[s].use
      BY <1>7, <2>2, StaysDo
    <3>2. \A d \in Requests : entry[d].busy => Begun(d)
      BY DEF Users, Entries
    <3>3. pc'[r] \in Using /\ pc'[r] \notin Calling
      BY <3>1 DEF Using, Calling
    <3>4. QED
      BY <3>1, <3>2, <3>3, MoveKeepsWatched
  <2>3. QED
    BY <2>1, <2>2
<1>8. ASSUME NEW r \in Requests, AwaitCompletion(r) PROVE Watched'
  <2>1. ASSUME GiveUp(r) PROVE Watched'
    <3>1. PICK c \in Requests :
            /\ c = request[r].use /\ connection'[c].closed
            /\ connection'[c].socket = connection[c].socket
            /\ \A d \in Requests \ {c} : connection'[d] = connection[d] /\ entry'[d] = entry[d]
            /\ pc'[r] \in {"attempting", "failed"}
            /\ \A s \in Requests \ {r} : pc'[s] = pc[s]
            /\ \A s \in Requests : request'[s].use = request[s].use
      BY <1>8, <2>1, GiveUpLeaves
    <3>2. \A d \in Requests : entry[d].busy => Begun(d)
      BY DEF Users, Entries
    <3>3. QED
      BY <3>1, <3>2, MoveKeepsWatched
  <2>2. ASSUME ~GiveUp(r) PROVE Watched'
    <3>1. PICK c \in Requests :
            /\ c = request[r].use
            /\ connection'[c].socket = connection[c].socket
            /\ connection[c].closed => connection'[c].closed
            /\ \A d \in Requests \ {c} : connection'[d] = connection[d] /\ entry'[d] = entry[d]
            /\ connection'[c].closed \/ (entry'[c].timer /\ ~entry'[c].busy)
            /\ pc'[r] = "complete"
            /\ \A s \in Requests \ {r} : pc'[s] = pc[s]
            /\ UNCHANGED request
      BY <1>8, <2>2, ReleaseLeaves
    <3>2. \A d \in Requests : entry[d].busy => Begun(d)
      BY DEF Users, Entries
    <3>3. pc'[r] \notin Calling
      BY <3>1 DEF Calling
    <3>4. QED
      BY <3>1, <3>2, <3>3, MoveKeepsWatched
  <2>3. QED
    BY <2>1, <2>2
<1>9. ASSUME NEW r \in Requests,
              Attempt(r) \/ SetActiveCall(r) \/ Execute(r) \/ Read(r)
      PROVE  Watched'
  <2>1. /\ pc[r] \in Calling
        /\ \A s \in Requests \ {r} : pc'[s] = pc[s]
        /\ \A s \in Requests : request'[s].use = request[s].use
        /\ UNCHANGED <<connection, entry>>
    BY <1>9, CallingDoes
  <2>2. pc[r] \notin Opening \cup Using
    BY <2>1 DEF Opening, Using, Calling
  <2>3. request[r].use = NoOne \/ connection[request[r].use].closed
    BY <2>1 DEF Watched
  <2>4. \A c \in Requests : entry[c].busy => Begun(c)
    BY DEF Users, Entries
  <2>5. QED
    BY <2>1, <2>2, <2>3, <2>4, MoveKeepsWatched
<1>10. ASSUME NEW r \in Requests,
              Abort(r) \/ SnapshotListeners(r) \/ CallListeners(r)
      PROVE  Watched'
  <2>1. /\ UNCHANGED <<pc, entry>>
        /\ \A s \in Requests : request'[s].use = request[s].use
        /\ \A c \in Requests : /\ connection'[c].socket = connection[c].socket
                               /\ connection[c].closed => connection'[c].closed
    BY <1>10, SignalDoes
  <2>2. QED
    BY <2>1, StayKeepsWatched
<1>11. ASSUME NEW r \in Requests, SocketStep(r) PROVE Watched'
  <2>1. /\ UNCHANGED <<pc, entry>>
        /\ connection'[r].socket # "none" \/ connection[r].socket = "none"
        /\ connection[r].socket # "none" \/ connection'[r].socket = "none"
        /\ connection[r].socket = "gone" => connection'[r].socket = "gone"
        /\ connection[r].closed => connection'[r].closed
        /\ \A d \in Requests \ {r} : connection'[d] = connection[d]
    BY <1>11, SocketDoes
  <2>2. \A s \in Requests : request'[s].use = request[s].use
    BY <1>11, SocketTells
  <2>3. QED
    BY <2>1, <2>2, StayKeepsWatched
<1>12. ASSUME NEW r \in Requests, TimerFires(r) PROVE Watched'
  <2>1. /\ UNCHANGED <<pc, request, connection>>
    BY <1>12 DEF TimerFires
  <2>2. /\ entry'[r].busy = entry[r].busy /\ entry'[r].task
        /\ \A d \in Requests \ {r} : entry'[d] = entry[d]
    BY <1>12, TimerDoes
  <2>3. QED
    BY <2>1, <2>2, StayKeepsWatched
<1>13. ASSUME NEW r \in Requests, TimerTask(r) PROVE Watched'
  <2>1. UNCHANGED <<pc, request>>
    BY <1>13 DEF TimerTask
  <2>2. /\ entry'[r].busy = entry[r].busy
        /\ \A d \in Requests \ {r} : entry'[d] = entry[d]
    BY <1>13, TimerDoes
  <2>3. /\ \A c \in Requests : /\ connection'[c].socket = connection[c].socket
                               /\ connection[c].closed => connection'[c].closed
        /\ connection'[r].closed \/ entry[r].busy
        /\ \A c \in Requests \ {r} : connection'[c] = connection[c]
    BY <1>13, CloseTypes DEF TimerTask
  <2>4. QED
    BY <2>1, <2>2, <2>3, StayKeepsWatched
<1>14. CASE UNCHANGED vars
  BY <1>14
     DEF vars, Types, Users, Sockets, Watched, OneRequestPerConnection, Early,
         Opening, Using, Calling, Begun, aborted
<1>15. QED
  BY <1>1, <1>2, <1>3, <1>4, <1>5, <1>6, <1>7, <1>8, <1>9, <1>10, <1>11, <1>12,
     <1>13, <1>14 DEF Next, Advance, Network, Timer, SocketStep

(* Every step keeps Called: the listener is taken off the list when the    *)
(* handshake is over, and a walk that already has it ends before the abort *)
(* is over.                                                                *)
LEMMA CalledStep ==
  ASSUME Types, Users, Sockets, Called, [Next]_vars
  PROVE  Called'
<1>1. ASSUME NEW r \in Requests, Begin(r) PROVE Called'
  <2>1. /\ pc[r] = "new" /\ UNCHANGED <<request, connection>>
        /\ \A s \in Requests \ {r} : pc'[s] = pc[s]
    BY <1>1 DEF Begin, Goto, Types
  <2>2. /\ signal'[r].listeners = {"call"} \/ signal' = signal
        /\ signal'[r].flag = signal[r].flag /\ signal'[r].calling = signal[r].calling
        /\ \A s \in Requests \ {r} : signal'[s] = signal[s]
    BY <1>1 DEF Begin, Types, Signalled
  <2>3. WalkReaches(r)
    BY DEF Called
  <2>4. QED
    BY <2>1, <2>2, <2>3, MoveKeepsCalled DEF Using, WalkReaches, aborted
<1>2. ASSUME NEW r \in Requests, Finish(r) PROVE Called'
  <2>1. /\ pc[r] \in {"complete", "failed"} /\ UNCHANGED connection
        /\ \A s \in Requests \ {r} : pc'[s] = pc[s] /\ request'[s] = request[s]
    BY <1>2 DEF Finish, Goto, Types
  <2>2. /\ signal'[r].listeners \subseteq signal[r].listeners
        /\ signal'[r].flag = signal[r].flag /\ signal'[r].calling = signal[r].calling
        /\ \A s \in Requests \ {r} : signal'[s] = signal[s]
    BY <1>2, RemoveTypes DEF Finish
  <2>3. WalkReaches(r)
    BY DEF Called
  <2>4. QED
    BY <2>1, <2>2, <2>3, MoveKeepsCalled DEF Using, WalkReaches, aborted
<1>3. ASSUME NEW r \in Requests, Acquire(r) PROVE Called'
  <2>1. /\ pc[r] = "acquiring" /\ \A s \in Requests \ {r} : pc'[s] = pc[s]
        /\ \A s \in Requests \ {r} : request'[s] = request[s]
    BY <1>3, AcquireDoes
  <2>2. UNCHANGED <<connection, signal>>
    BY <1>3 DEF Acquire
  <2>3. WalkReaches(r)
    BY DEF Called
  <2>4. QED
    BY <2>1, <2>2, <2>3, MoveKeepsCalled DEF Using, WalkReaches, aborted
<1>4. ASSUME NEW r \in Requests, Connect(r) PROVE Called'
  <2>1. /\ pc[r] = "connecting"
        /\ \A s \in Requests \ {r} : pc'[s] = pc[s]
        /\ UNCHANGED <<request, signal>>
    BY <1>4 DEF Connect, Goto, Types
  <2>2. /\ connection'[r].closed = aborted(r)
        /\ \A d \in Requests \ {r} : connection'[d] = connection[d]
    BY <1>4, ConnectDoes
  <2>3. WalkReaches(r)
    BY DEF Called
  <2>4. QED
    BY <2>1, <2>2, <2>3, MoveKeepsCalled DEF WalkReaches, aborted
<1>5. ASSUME NEW r \in Requests, AddListener(r) PROVE Called'
  <2>1. /\ pc[r] = "adding" /\ pc'[r] = "rechecking" /\ UNCHANGED <<request, connection>>
        /\ \A s \in Requests \ {r} : pc'[s] = pc[s]
    BY <1>5 DEF AddListener, Goto, Types
  <2>2. /\ signal'[r].flag = signal[r].flag /\ signal'[r].calling = signal[r].calling
        /\ \A s \in Requests \ {r} : signal'[s] = signal[s]
    BY <1>5 DEF AddListener, Types, Signalled
  <2>3. WalkReaches(r)
    BY DEF Called
  <2>4. QED
    BY <2>1, <2>2, <2>3, MoveKeepsCalled DEF Using, WalkReaches, aborted
<1>6. ASSUME NEW r \in Requests, RecheckFlag(r) PROVE Called'
  <2>1. /\ pc[r] = "rechecking" /\ pc'[r] = "opening" /\ UNCHANGED request
        /\ \A s \in Requests \ {r} : pc'[s] = pc[s]
    BY <1>6 DEF RecheckFlag, Goto, Types
  <2>2. \A c \in Requests : connection[c].closed => connection'[c].closed
    BY <1>6, CloseTypes DEF RecheckFlag
  <2>3. /\ signal'[r].listeners \subseteq signal[r].listeners
        /\ signal'[r].flag = signal[r].flag /\ signal'[r].calling = signal[r].calling
        /\ \A s \in Requests \ {r} : signal'[s] = signal[s]
    BY <1>6, RemoveTypes DEF RecheckFlag
  <2>4. WalkReaches(r)
    BY DEF Called
  <2>5. request[r].use = r
    BY <2>1 DEF Opening, Users, Uses
  <2>6. QED
    BY <2>1, <2>2, <2>3, <2>4, <2>5, MoveKeepsCalled DEF WalkReaches, aborted
<1>7. ASSUME NEW r \in Requests, AwaitOpen(r) PROVE Called'
  <2>1. /\ UNCHANGED <<connection, request>>
        /\ \A s \in Requests \ {r} : pc'[s] = pc[s]
        /\ pc[r] = "opening"
        /\ \/ pc'[r] \in {"attempting", "failed"} /\ connection[r].opened = "failed"
           \/ pc'[r] \in {"sending", "inserting"}
    BY <1>7, MovesDo DEF AwaitOpen
  <2>2. /\ signal'[r].listeners = signal[r].listeners \ {"socket"}
        /\ signal'[r].flag = signal[r].flag /\ signal'[r].calling = signal[r].calling
        /\ \A s \in Requests \ {r} : signal'[s] = signal[s]
    BY <1>7, RemoveTypes DEF AwaitOpen
  <2>3. WalkReaches(r)
    BY DEF Called
  <2>4. request[r].use = r /\ (connection[r].opened = "failed" => connection[r].closed)
    BY <2>1 DEF Opening, Users, Uses, Sockets
  <2>5. QED
    BY <2>1, <2>2, <2>3, <2>4, MoveKeepsCalled DEF Using, WalkReaches, aborted
<1>8. ASSUME NEW r \in Requests, Insert(r) PROVE Called'
  <2>1. /\ pc[r] = "inserting" /\ pc'[r] = "sending"
        /\ \A s \in Requests \ {r} : pc'[s] = pc[s]
        /\ UNCHANGED <<request, connection, signal>>
    BY <1>8 DEF Insert, Goto, Types
  <2>2. WalkReaches(r)
    BY DEF Called
  <2>3. request[r].use = r
    BY <2>1 DEF Opening, Users, Uses
  <2>4. QED
    BY <2>1, <2>2, <2>3, MoveKeepsCalled DEF Using, WalkReaches, aborted
<1>9. ASSUME NEW r \in Requests, Send(r) PROVE Called'
  <2>1. ASSUME GiveUp(r), connection[request[r].use].closed PROVE Called'
    <3>1. PICK c \in Requests :
            /\ c = request[r].use /\ pc[r] \in Using /\ connection'[c].closed
            /\ \A d \in Requests \ {c} : connection'[d] = connection[d]
            /\ \A s \in Requests \ {r} : pc'[s] = pc[s]
            /\ \A s \in Requests : request'[s].use = request[s].use
      BY <1>9, <2>1, GiveUpLeaves
    <3>2. signal' = signal
      BY <1>9 DEF Send
    <3>3. /\ "socket" \in signal[r].calling => connection[r].closed \/ request[r].use = r
          /\ signal[r].calling # {} => aborted(r)
          /\ "socket" \notin signal[r].listeners
      BY <3>1 DEF Called, WalkReaches, Using
    <3>4. QED
      BY <3>1, <3>2, <3>3, MoveKeepsCalled DEF WalkReaches, aborted
  <2>2. ASSUME ~connection[request[r].use].closed PROVE Called'
    <3>1. pc[r] = "sending" /\ pc[r] \in Using
      BY <1>9 DEF Send, Using
    <3>2. PICK c \in Requests : c = request[r].use
      BY <3>1 DEF Users, Uses
    <3>3. /\ \A s \in Requests \ {r} : request'[s] = request[s] /\ pc'[s] = pc[s]
          /\ request'[r].use = c /\ pc'[r] = "checking"
          /\ connection'[c].reader = r
          /\ connection'[c].socket = connection[c].socket
          /\ connection'[c].opened = connection[c].opened
          /\ connection'[c].closed = connection[c].closed
          /\ entry'[c].busy = entry[c].busy /\ entry'[c].timer = entry[c].timer
          /\ entry'[c].task = entry[c].task
          /\ \A d \in Requests \ {c} : connection'[d] = connection[d] /\ entry'[d] = entry[d]
          /\ cache' = cache
      BY <1>9, <2>2, <3>2, SendDoes DEF Types
    <3>4. pc'[r] \in Using /\ pc'[r] \notin Early \cup Opening \cup Calling \cup {"connecting"}
      BY <3>3 DEF Early, Opening, Using, Calling
    <3>5. signal' = signal
      BY <1>9 DEF Send
    <3>6. /\ "socket" \in signal[r].calling => connection[r].closed \/ request[r].use = r
          /\ signal[r].calling # {} => aborted(r)
          /\ "socket" \notin signal[r].listeners
      BY <3>1 DEF Called, WalkReaches
    <3>7. QED
      BY <3>1, <3>2, <3>3, <3>4, <3>5, <3>6, MoveKeepsCalled
         DEF WalkReaches, aborted
  <2>3. QED
    BY <1>9, <2>1, <2>2 DEF Send
<1>10. ASSUME NEW r \in Requests, CheckAborted(r) \/ Receive(r) PROVE Called'
  <2>1. ASSUME GiveUp(r) PROVE Called'
    <3>1. PICK c \in Requests :
            /\ c = request[r].use /\ pc[r] \in Using /\ connection'[c].closed
            /\ \A d \in Requests \ {c} : connection'[d] = connection[d]
            /\ \A s \in Requests \ {r} : pc'[s] = pc[s]
            /\ \A s \in Requests : request'[s].use = request[s].use
      BY <1>10, <2>1, GiveUpLeaves
    <3>2. signal' = signal
      BY <1>10 DEF CheckAborted, Receive
    <3>3. /\ "socket" \in signal[r].calling => connection[r].closed \/ request[r].use = r
          /\ signal[r].calling # {} => aborted(r)
          /\ "socket" \notin signal[r].listeners
      BY <3>1 DEF Called, WalkReaches, Using
    <3>4. QED
      BY <3>1, <3>2, <3>3, MoveKeepsCalled DEF WalkReaches, aborted
  <2>2. ASSUME ~GiveUp(r) PROVE Called'
    <3>1. /\ UNCHANGED connection
          /\ pc[r] \in {"checking", "receiving"}
          /\ pc'[r] \in {"checking", "receiving", "awaiting"}
          /\ \A s \in Requests \ {r} : pc'[s] = pc[s]
          /\ \A s \in Requests : request'[s].use = request[s].use
      BY <1>10, <2>2, StaysDo
    <3>2. signal' = signal
      BY <1>10 DEF CheckAborted, Receive
    <3>3. /\ "socket" \in signal[r].calling => connection[r].closed \/ request[r].use = r
          /\ signal[r].calling # {} => aborted(r)
          /\ "socket" \notin signal[r].listeners
      BY <3>1 DEF Called, WalkReaches
    <3>4. QED
      BY <3>1, <3>2, <3>3, MoveKeepsCalled DEF WalkReaches, aborted, Using
  <2>3. QED
    BY <2>1, <2>2
<1>11. ASSUME NEW r \in Requests, AwaitCompletion(r) PROVE Called'
  <2>1. ASSUME GiveUp(r) PROVE Called'
    <3>1. PICK c \in Requests :
            /\ c = request[r].use /\ pc[r] \in Using /\ connection'[c].closed
            /\ \A d \in Requests \ {c} : connection'[d] = connection[d]
            /\ \A s \in Requests \ {r} : pc'[s] = pc[s]
            /\ \A s \in Requests : request'[s].use = request[s].use
      BY <1>11, <2>1, GiveUpLeaves
    <3>2. signal' = signal
      BY <1>11 DEF AwaitCompletion
    <3>3. /\ "socket" \in signal[r].calling => connection[r].closed \/ request[r].use = r
          /\ signal[r].calling # {} => aborted(r)
          /\ "socket" \notin signal[r].listeners
      BY <3>1 DEF Called, WalkReaches, Using
    <3>4. QED
      BY <3>1, <3>2, <3>3, MoveKeepsCalled DEF WalkReaches, aborted
  <2>2. ASSUME ~GiveUp(r) PROVE Called'
    <3>1. PICK c \in Requests :
            /\ c = request[r].use /\ pc[r] \in Using /\ ~aborted(r)
            /\ connection[c].closed => connection'[c].closed
            /\ \A d \in Requests \ {c} : connection'[d] = connection[d]
            /\ \A s \in Requests \ {r} : pc'[s] = pc[s]
            /\ UNCHANGED request
      BY <1>11, <2>2, ReleaseLeaves
    <3>2. signal' = signal
      BY <1>11 DEF AwaitCompletion
    <3>3. signal[r].calling = {} /\ "socket" \notin signal[r].listeners
      BY <3>1 DEF Called, WalkReaches, Using
    <3>4. QED
      BY <3>1, <3>2, <3>3, MoveKeepsCalled
  <2>3. QED
    BY <2>1, <2>2
<1>12. ASSUME NEW r \in Requests,
              Attempt(r) \/ SetActiveCall(r) \/ Execute(r) \/ Read(r)
      PROVE  Called'
  <2>1. /\ pc[r] \in Calling
        /\ \A s \in Requests \ {r} : pc'[s] = pc[s]
        /\ \A s \in Requests : request'[s].use = request[s].use
        /\ UNCHANGED <<connection, signal>>
    BY <1>12, CallingDoes
  <2>2. /\ "socket" \in signal[r].calling => connection[r].closed
        /\ signal[r].calling # {} => aborted(r)
        /\ "socket" \notin signal[r].listeners
    BY <2>1 DEF Called, WalkReaches, Using, Calling
  <2>3. QED
    BY <2>1, <2>2, MoveKeepsCalled DEF WalkReaches, aborted
<1>13. ASSUME NEW r \in Requests, Abort(r) PROVE Called'
  <2>1. /\ signal' = [signal EXCEPT ![r].flag = "set"] /\ ~aborted(r)
        /\ UNCHANGED <<pc, request, connection>>
    BY <1>13 DEF Abort
  <2>2. /\ signal'[r].calling = signal[r].calling /\ signal'[r].flag # "quiet"
        /\ signal'[r].listeners = signal[r].listeners
        /\ \A s \in Requests \ {r} : signal'[s] = signal[s]
    BY <2>1 DEF Types, Signalled
  <2>3. WalkReaches(r)
    BY DEF Called
  <2>4. QED
    BY <2>1, <2>2, <2>3, MoveKeepsCalled DEF WalkReaches, aborted
<1>14. ASSUME NEW r \in Requests, SnapshotListeners(r) PROVE Called'
  <2>1. UNCHANGED <<pc, request, connection>>
    BY <1>14 DEF SnapshotListeners
  <2>2. PICK f \in {"done", "walking"} :
          signal' = [signal EXCEPT ![r].calling = signal[r].listeners, ![r].flag = f]
    BY <1>14 DEF SnapshotListeners
  <2>3. /\ signal'[r].calling = signal[r].listeners /\ signal'[r].flag # "quiet"
        /\ signal'[r].listeners = signal[r].listeners
        /\ \A s \in Requests \ {r} : signal'[s] = signal[s]
    BY <2>2 DEF Types, Signalled
  <2>4. WalkReaches(r)
    BY DEF Called
  <2>5. pc[r] \in {"rechecking", "opening"} => request[r].use = r
    BY DEF Opening, Users, Uses
  <2>6. QED
    BY <2>1, <2>3, <2>4, <2>5, MoveKeepsCalled DEF WalkReaches, aborted
<1>15. ASSUME NEW r \in Requests, CallListeners(r) PROVE Called'
  <2>1. /\ UNCHANGED pc
        /\ \A s \in Requests : request'[s].use = request[s].use
        /\ \A c \in Requests : connection[c].closed => connection'[c].closed
    BY <1>15, SignalDoes
  <2>2. /\ signal'[r].calling = {} /\ signal'[r].listeners = {}
        /\ \A s \in Requests \ {r} : signal'[s] = signal[s]
    BY <1>15 DEF CallListeners, Types
  <2>3. QED
    BY <2>1, <2>2, MoveKeepsCalled
<1>16. ASSUME NEW r \in Requests, SocketStep(r) PROVE Called'
  <2>1. /\ UNCHANGED <<pc, signal>>
        /\ connection[r].closed => connection'[r].closed
        /\ \A d \in Requests \ {r} : connection'[d] = connection[d]
    BY <1>16, SocketDoes
  <2>2. \A s \in Requests : request'[s].use = request[s].use
    BY <1>16, SocketTells
  <2>3. QED
    BY <2>1, <2>2, StayKeepsCalled
<1>17. ASSUME NEW r \in Requests, TimerFires(r) \/ TimerTask(r) PROVE Called'
  <2>1. UNCHANGED <<pc, request, signal>>
    BY <1>17 DEF TimerFires, TimerTask
  <2>2. \A c \in Requests : connection[c].closed => connection'[c].closed
    BY <1>17, CloseTypes DEF TimerFires, TimerTask
  <2>3. QED
    BY <2>1, <2>2, StayKeepsCalled
<1>18. CASE UNCHANGED vars
  BY <1>18
     DEF vars, Types, Users, Called, WalkReaches, aborted, Early, Opening,
         Using, Calling
<1>19. QED
  BY <1>1, <1>2, <1>3, <1>4, <1>5, <1>6, <1>7, <1>8, <1>9, <1>10, <1>11, <1>12,
     <1>13, <1>14, <1>15, <1>16, <1>17, <1>18 DEF Next, Advance, Network, Timer, SocketStep

(* Every step keeps Reached: the flag is looked at again after the         *)
(* listener was added.                                                     *)
LEMMA ReachedStep ==
  ASSUME Types, Users, Reached, [Next]_vars
  PROVE  Reached'
<1>1. ASSUME NEW r \in Requests, Begin(r) PROVE Reached'
  <2>1. /\ UNCHANGED connection /\ \A s \in Requests \ {r} : pc'[s] = pc[s]
        /\ pc'[r] \in {"failed", "attempting", "acquiring", "ended"}
    BY <1>1 DEF Begin, Goto, Types
  <2>2. \A s \in Requests \ {r} : signal'[s] = signal[s]
    BY <1>1 DEF Begin, Types, Signalled
  <2>3. QED
    BY <2>1, <2>2, MoveKeepsReached
<1>2. ASSUME NEW r \in Requests, Finish(r) PROVE Reached'
  <2>1. /\ UNCHANGED connection /\ \A s \in Requests \ {r} : pc'[s] = pc[s]
        /\ pc'[r] \in {"failed", "attempting", "acquiring", "ended"}
    BY <1>2 DEF Finish, Goto, Types
  <2>2. /\ signal'[r].listeners \subseteq signal[r].listeners
        /\ signal'[r].flag = signal[r].flag /\ signal'[r].calling = signal[r].calling
        /\ \A s \in Requests \ {r} : signal'[s] = signal[s]
    BY <1>2, RemoveTypes DEF Finish
  <2>3. QED
    BY <2>1, <2>2, MoveKeepsReached
<1>3. ASSUME NEW r \in Requests, Acquire(r) PROVE Reached'
  <2>1. /\ \A s \in Requests \ {r} : pc'[s] = pc[s]
        /\ pc'[r] \in {"sending", "connecting"}
    BY <1>3, AcquireDoes
  <2>2. UNCHANGED <<connection, signal>>
    BY <1>3 DEF Acquire
  <2>3. QED
    BY <2>1, <2>2, MoveKeepsReached
<1>4. ASSUME NEW r \in Requests, Connect(r) PROVE Reached'
  <2>1. /\ \A s \in Requests \ {r} : pc'[s] = pc[s]
        /\ pc'[r] = IF aborted(r) THEN "opening" ELSE "adding"
        /\ UNCHANGED signal
    BY <1>4 DEF Connect, Goto, Types
  <2>2. /\ connection'[r].closed = aborted(r)
        /\ \A d \in Requests \ {r} : connection'[d] = connection[d]
    BY <1>4, ConnectDoes
  <2>3. /\ pc'[r] # "rechecking"
        /\ pc'[r] = "opening" => connection'[r].closed
    BY <2>1, <2>2
  <2>4. QED
    BY <2>1, <2>2, <2>3 DEF Reached
<1>5. ASSUME NEW r \in Requests, AddListener(r) PROVE Reached'
  <2>1. /\ \A s \in Requests \ {r} : pc'[s] = pc[s]
        /\ pc'[r] = "rechecking" /\ UNCHANGED connection
    BY <1>5 DEF AddListener, Goto, Types
  <2>2. /\ "socket" \in signal'[r].listeners
        /\ \A s \in Requests \ {r} : signal'[s] = signal[s]
    BY <1>5 DEF AddListener, Types, Signalled
  <2>3. QED
    BY <2>1, <2>2 DEF Reached
<1>6. ASSUME NEW r \in Requests, RecheckFlag(r) PROVE Reached'
  <2>1. /\ \A s \in Requests \ {r} : pc'[s] = pc[s]
        /\ pc[r] = "rechecking" /\ pc'[r] = "opening"
    BY <1>6 DEF RecheckFlag, Goto, Types
  <2>2. CASE aborted(r)
    <3>1. /\ connection'[r].closed
          /\ \A d \in Requests \ {r} : connection'[d] = connection[d]
      BY <1>6, <2>2, CloseTypes DEF RecheckFlag
    <3>2. \A s \in Requests \ {r} : signal'[s] = signal[s]
      BY <1>6, <2>2, RemoveTypes DEF RecheckFlag
    <3>3. QED
      BY <2>1, <3>1, <3>2 DEF Reached
  <2>3. CASE ~aborted(r)
    <3>1. UNCHANGED <<signal, connection>>
      BY <1>6, <2>3 DEF RecheckFlag
    <3>2. "socket" \in signal[r].listeners /\ signal[r].flag = "quiet"
      BY <2>1, <2>3 DEF Reached, aborted
    <3>3. QED
      BY <2>1, <3>1, <3>2 DEF Reached
  <2>4. QED
    BY <2>2, <2>3
<1>7. ASSUME NEW r \in Requests, AwaitOpen(r) PROVE Reached'
  <2>1. /\ UNCHANGED connection
        /\ \A s \in Requests \ {r} : pc'[s] = pc[s]
        /\ pc'[r] \in {"attempting", "failed", "sending", "inserting"}
    BY <1>7 DEF AwaitOpen, Goto, Types
  <2>2. \A s \in Requests \ {r} : signal'[s] = signal[s]
    BY <1>7, RemoveTypes DEF AwaitOpen
  <2>3. QED
    BY <2>1, <2>2, MoveKeepsReached
<1>8. ASSUME NEW r \in Requests, Insert(r) PROVE Reached'
  <2>1. /\ \A s \in Requests \ {r} : pc'[s] = pc[s]
        /\ pc'[r] = "sending" /\ UNCHANGED <<signal, connection>>
    BY <1>8 DEF Insert, Goto, Types
  <2>2. QED
    BY <2>1, MoveKeepsReached
<1>9. ASSUME NEW r \in Requests, Send(r) PROVE Reached'
  <2>1. ASSUME GiveUp(r), connection[request[r].use].closed PROVE Reached'
    <3>1. /\ \A d \in Requests : connection[d].closed => connection'[d].closed
          /\ pc'[r] \in {"attempting", "failed"}
          /\ \A s \in Requests \ {r} : pc'[s] = pc[s]
      BY <1>9, <2>1, GiveUpLeaves
    <3>2. signal' = signal
      BY <1>9 DEF Send
    <3>3. QED
      BY <3>1, <3>2, MoveKeepsReached
  <2>2. ASSUME ~connection[request[r].use].closed PROVE Reached'
    <3>1. pc[r] = "sending" /\ pc[r] \in Using
      BY <1>9 DEF Send, Using
    <3>2. PICK c \in Requests : c = request[r].use
      BY <3>1 DEF Users, Uses
    <3>3. /\ \A s \in Requests \ {r} : request'[s] = request[s] /\ pc'[s] = pc[s]
          /\ request'[r].use = c /\ pc'[r] = "checking"
          /\ connection'[c].reader = r
          /\ connection'[c].socket = connection[c].socket
          /\ connection'[c].opened = connection[c].opened
          /\ connection'[c].closed = connection[c].closed
          /\ entry'[c].busy = entry[c].busy /\ entry'[c].timer = entry[c].timer
          /\ entry'[c].task = entry[c].task
          /\ \A d \in Requests \ {c} : connection'[d] = connection[d] /\ entry'[d] = entry[d]
          /\ cache' = cache
      BY <1>9, <2>2, <3>2, SendDoes DEF Types
    <3>4. signal' = signal
      BY <1>9 DEF Send
    <3>5. QED
      BY <3>3, <3>4, MoveKeepsReached
  <2>3. QED
    BY <1>9, <2>1, <2>2 DEF Send
<1>10. ASSUME NEW r \in Requests, CheckAborted(r) \/ Receive(r) PROVE Reached'
  <2>1. ASSUME GiveUp(r) PROVE Reached'
    <3>1. /\ \A d \in Requests : connection[d].closed => connection'[d].closed
          /\ pc'[r] \in {"attempting", "failed"}
          /\ \A s \in Requests \ {r} : pc'[s] = pc[s]
      BY <1>10, <2>1, GiveUpLeaves
    <3>2. signal' = signal
      BY <1>10 DEF CheckAborted, Receive
    <3>3. QED
      BY <3>1, <3>2, MoveKeepsReached
  <2>2. ASSUME ~GiveUp(r) PROVE Reached'
    <3>1. /\ UNCHANGED connection
          /\ pc'[r] \in {"checking", "receiving", "awaiting"}
          /\ \A s \in Requests \ {r} : pc'[s] = pc[s]
      BY <1>10, <2>2, StaysDo
    <3>2. signal' = signal
      BY <1>10 DEF CheckAborted, Receive
    <3>3. QED
      BY <3>1, <3>2, MoveKeepsReached
  <2>3. QED
    BY <2>1, <2>2
<1>11. ASSUME NEW r \in Requests, AwaitCompletion(r) PROVE Reached'
  <2>1. ASSUME GiveUp(r) PROVE Reached'
    <3>1. /\ \A d \in Requests : connection[d].closed => connection'[d].closed
          /\ pc'[r] \in {"attempting", "failed"}
          /\ \A s \in Requests \ {r} : pc'[s] = pc[s]
      BY <1>11, <2>1, GiveUpLeaves
    <3>2. signal' = signal
      BY <1>11 DEF AwaitCompletion
    <3>3. QED
      BY <3>1, <3>2, MoveKeepsReached
  <2>2. ASSUME ~GiveUp(r) PROVE Reached'
    <3>1. /\ \A d \in Requests : connection[d].closed => connection'[d].closed
          /\ pc'[r] = "complete"
          /\ \A s \in Requests \ {r} : pc'[s] = pc[s]
      BY <1>11, <2>2, ReleaseLeaves
    <3>2. signal' = signal
      BY <1>11 DEF AwaitCompletion
    <3>3. QED
      BY <3>1, <3>2, MoveKeepsReached
  <2>3. QED
    BY <2>1, <2>2
<1>12. ASSUME NEW r \in Requests,
              Attempt(r) \/ SetActiveCall(r) \/ Execute(r) \/ Read(r)
      PROVE  Reached'
  <2>1. /\ pc'[r] \in Calling \cup {"complete", "failed"}
        /\ \A s \in Requests \ {r} : pc'[s] = pc[s]
        /\ UNCHANGED <<connection, signal>>
    BY <1>12, CallingDoes
  <2>2. QED
    BY <2>1, MoveKeepsReached DEF Calling
<1>13. ASSUME NEW r \in Requests, Abort(r) PROVE Reached'
  <2>1. /\ signal' = [signal EXCEPT ![r].flag = "set"] /\ signal[r].flag = "quiet"
        /\ UNCHANGED <<pc, connection>>
    BY <1>13 DEF Abort, aborted
  <2>2. /\ signal'[r].flag = "set" /\ signal'[r].listeners = signal[r].listeners
        /\ \A s \in Requests \ {r} : signal'[s] = signal[s]
    BY <2>1 DEF Types, Signalled
  <2>3. QED
    BY <2>1, <2>2 DEF Reached
<1>14. ASSUME NEW r \in Requests, SnapshotListeners(r) PROVE Reached'
  <2>1. UNCHANGED <<pc, connection>> /\ signal[r].flag = "set"
    BY <1>14 DEF SnapshotListeners
  <2>2. PICK f \in {"done", "walking"} :
          /\ signal' = [signal EXCEPT ![r].calling = signal[r].listeners, ![r].flag = f]
          /\ f = "done" => signal[r].listeners = {}
    BY <1>14 DEF SnapshotListeners
  <2>3. /\ signal'[r].calling = signal[r].listeners /\ signal'[r].flag = f
        /\ \A s \in Requests \ {r} : signal'[s] = signal[s]
    BY <2>2 DEF Types, Signalled
  <2>4. QED
    BY <2>1, <2>2, <2>3 DEF Reached
<1>15. ASSUME NEW r \in Requests, CallListeners(r) PROVE Reached'
  <2>1. UNCHANGED pc /\ signal[r].flag = "walking"
    BY <1>15 DEF CallListeners
  <2>2. /\ signal'[r].flag = "done"
        /\ \A s \in Requests \ {r} : signal'[s] = signal[s]
    BY <1>15 DEF CallListeners, Types
  <2>3. \A c \in Requests : connection[c].closed => connection'[c].closed
    BY <1>15, SignalDoes
  <2>4. "socket" \in signal[r].calling => connection'[r].closed
    <3>1. ASSUME "socket" \in signal[r].calling
          PROVE  connection' = [connection EXCEPT ![r].closed = TRUE]
      BY <1>15, <3>1 DEF CallListeners
    <3>2. QED
      BY <3>1, CloseTypes
  <2>5. pc[r] = "opening" => connection'[r].closed
    BY <2>1, <2>3, <2>4 DEF Reached
  <2>6. QED
    BY <2>1, <2>2, <2>3, <2>5 DEF Reached
<1>16. ASSUME NEW r \in Requests, SocketStep(r) PROVE Reached'
  <2>1. /\ UNCHANGED <<pc, signal>>
        /\ connection[r].closed => connection'[r].closed
        /\ \A d \in Requests \ {r} : connection'[d] = connection[d]
    BY <1>16, SocketDoes
  <2>2. QED
    BY <2>1, StayKeepsReached
<1>17. ASSUME NEW r \in Requests, TimerFires(r) \/ TimerTask(r) PROVE Reached'
  <2>1. UNCHANGED <<pc, signal>>
    BY <1>17 DEF TimerFires, TimerTask
  <2>2. \A c \in Requests : connection[c].closed => connection'[c].closed
    BY <1>17, CloseTypes DEF TimerFires, TimerTask
  <2>3. QED
    BY <2>1, <2>2, StayKeepsReached
<1>18. CASE UNCHANGED vars
  BY <1>18 DEF vars, Reached, aborted
<1>19. QED
  BY <1>1, <1>2, <1>3, <1>4, <1>5, <1>6, <1>7, <1>8, <1>9, <1>10, <1>11, <1>12,
     <1>13, <1>14, <1>15, <1>16, <1>17, <1>18 DEF Next, Advance, Network, Timer, SocketStep

(* Every step keeps Opens.                                                 *)
LEMMA OpensStep ==
  ASSUME Types, Users, Sockets, Opens, [Next]_vars
  PROVE  Opens'
<1>1. ASSUME NEW r \in Requests,
              Begin(r) \/ Finish(r) \/ AddListener(r)
      PROVE  Opens'
  <2>1. /\ UNCHANGED <<connection, cache>>
        /\ \A s \in Requests \ {r} : pc'[s] = pc[s] /\ request'[s] = request[s]
    BY <1>1, MovesDo
  <2>2. pc'[r] \in {"failed", "attempting", "acquiring", "ended", "rechecking"}
    BY <1>1 DEF Begin, Finish, AddListener, Goto, Types
  <2>3. QED
    BY <2>1, <2>2, MoveKeepsOpens DEF Using
<1>2. ASSUME NEW r \in Requests, Acquire(r) PROVE Opens'
  <2>1. /\ pc[r] = "acquiring" /\ \A s \in Requests \ {r} : pc'[s] = pc[s]
        /\ \A s \in Requests \ {r} : request'[s] = request[s]
        /\ cache' \in {cache, NoOne}
        /\ \/ pc'[r] = "sending" /\ cache \in Requests /\ request'[r].use = cache
           \/ pc'[r] = "connecting"
    BY <1>2, AcquireDoes
  <2>2. UNCHANGED connection
    BY <1>2 DEF Acquire
  <2>3. /\ pc'[r] # "inserting"
        /\ pc'[r] \in Using => connection[request'[r].use].opened # "no"
    BY <2>1 DEF Opens, Using
  <2>4. \A c \in Requests : cache' = c => cache = c
    BY <2>1, CodexAssumption DEF CodexAssumption
  <2>5. QED
    BY <2>1, <2>2, <2>3, <2>4, MoveKeepsOpens
<1>3. ASSUME NEW r \in Requests, Connect(r) PROVE Opens'
  <2>1. /\ pc[r] = "connecting" /\ pc'[r] \in {"opening", "adding"}
        /\ \A s \in Requests \ {r} : pc'[s] = pc[s]
        /\ UNCHANGED <<request, cache>>
    BY <1>3 DEF Connect, Goto, Types
  <2>2. /\ connection'[r].socket = "connecting"
        /\ connection'[r].opened = connection[r].opened
        /\ \A d \in Requests \ {r} : connection'[d] = connection[d]
    BY <1>3, ConnectDoes
  <2>3. connection[r].socket = "none"
    BY <2>1 DEF Sockets
  <2>4. pc'[r] \notin Using /\ pc'[r] # "inserting"
    BY <2>1 DEF Using
  <2>5. \A c \in Requests :
          /\ connection'[c].opened = "no" <=> connection'[c].socket \in {"none", "connecting"}
          /\ connection'[c].socket = "gone" => connection'[c].closed
          /\ cache' = c \/ pc'[c] = "inserting" => connection'[c].opened # "no"
    BY <2>1, <2>2, <2>3, <2>4 DEF Opens
  <2>6. \A s \in Requests : pc'[s] \in Using => connection'[request'[s].use].opened # "no"
    <3>1. \A s \in Requests : pc[s] \in Using => request[s].use \in Requests
      BY DEF Users, Uses
    <3>2. QED
      BY <2>1, <2>2, <2>4, <3>1 DEF Opens
  <2>7. QED
    BY <2>5, <2>6 DEF Opens
<1>4. ASSUME NEW r \in Requests, RecheckFlag(r) PROVE Opens'
  <2>1. /\ pc'[r] = "opening" /\ UNCHANGED <<request, cache>>
        /\ \A s \in Requests \ {r} : pc'[s] = pc[s]
    BY <1>4 DEF RecheckFlag, Goto, Types
  <2>2. \A c \in Requests : /\ connection'[c].opened = connection[c].opened
                            /\ connection'[c].socket = connection[c].socket
                            /\ connection[c].closed => connection'[c].closed
    BY <1>4, CloseTypes DEF RecheckFlag
  <2>3. QED
    BY <2>1, <2>2, MoveKeepsOpens DEF Using
<1>5. ASSUME NEW r \in Requests, AwaitOpen(r) PROVE Opens'
  <2>1. /\ UNCHANGED <<connection, cache, request>>
        /\ \A s \in Requests \ {r} : pc'[s] = pc[s]
        /\ pc[r] = "opening" /\ connection[r].opened # "no"
    BY <1>5 DEF AwaitOpen, Goto, Types
  <2>2. request[r].use = r
    BY <2>1 DEF Opening, Users, Uses
  <2>3. QED
    BY <2>1, <2>2, MoveKeepsOpens
<1>6. ASSUME NEW r \in Requests, Insert(r) PROVE Opens'
  <2>1. /\ pc[r] = "inserting" /\ pc'[r] = "sending"
        /\ \A s \in Requests \ {r} : pc'[s] = pc[s]
        /\ UNCHANGED <<request, connection>> /\ cache' = r
    BY <1>6 DEF Insert, Goto, Types
  <2>2. connection[r].opened # "no" /\ request[r].use = r
    BY <2>1 DEF Opening, Opens, Users, Uses
  <2>3. QED
    BY <2>1, <2>2, MoveKeepsOpens
<1>7. ASSUME NEW r \in Requests, Send(r) PROVE Opens'
  <2>1. ASSUME GiveUp(r), connection[request[r].use].closed PROVE Opens'
    <3>1. /\ \A d \in Requests : /\ connection'[d].opened = connection[d].opened
                                 /\ connection'[d].socket = connection[d].socket
                                 /\ connection[d].closed => connection'[d].closed
          /\ pc'[r] \in {"attempting", "failed"} /\ cache' \in {cache, NoOne}
          /\ \A s \in Requests \ {r} : pc'[s] = pc[s] /\ request'[s] = request[s]
      BY <1>7, <2>1, GiveUpLeaves
    <3>2. \A d \in Requests : cache' = d => cache = d
      BY <3>1, CodexAssumption DEF CodexAssumption
    <3>3. QED
      BY <3>1, <3>2, MoveKeepsOpens DEF Using
  <2>2. ASSUME ~connection[request[r].use].closed PROVE Opens'
    <3>1. pc[r] = "sending" /\ pc[r] \in Using
      BY <1>7 DEF Send, Using
    <3>2. PICK c \in Requests : c = request[r].use
      BY <3>1 DEF Users, Uses
    <3>3. /\ \A s \in Requests \ {r} : request'[s] = request[s] /\ pc'[s] = pc[s]
          /\ request'[r].use = c /\ pc'[r] = "checking"
          /\ connection'[c].reader = r
          /\ connection'[c].socket = connection[c].socket
          /\ connection'[c].opened = connection[c].opened
          /\ connection'[c].closed = connection[c].closed
          /\ entry'[c].busy = entry[c].busy /\ entry'[c].timer = entry[c].timer
          /\ entry'[c].task = entry[c].task
          /\ \A d \in Requests \ {c} : connection'[d] = connection[d] /\ entry'[d] = entry[d]
          /\ cache' = cache
      BY <1>7, <2>2, <3>2, SendDoes DEF Types
    <3>4. pc'[r] \in Using /\ pc'[r] \notin Early \cup Opening \cup Calling \cup {"connecting"}
      BY <3>3 DEF Early, Opening, Using, Calling
    <3>5. QED
      BY <3>1, <3>2, <3>3, <3>4, MoveKeepsOpens
  <2>3. QED
    BY <1>7, <2>1, <2>2 DEF Send
<1>8. ASSUME NEW r \in Requests, CheckAborted(r) \/ Receive(r) PROVE Opens'
  <2>1. ASSUME GiveUp(r) PROVE Opens'
    <3>1. /\ \A d \in Requests : /\ connection'[d].opened = connection[d].opened
                                 /\ connection'[d].socket = connection[d].socket
                                 /\ connection[d].closed => connection'[d].closed
          /\ pc'[r] \in {"attempting", "failed"} /\ cache' \in {cache, NoOne}
          /\ \A s \in Requests \ {r} : pc'[s] = pc[s] /\ request'[s] = request[s]
      BY <1>8, <2>1, GiveUpLeaves
    <3>2. \A d \in Requests : cache' = d => cache = d
      BY <3>1, CodexAssumption DEF CodexAssumption
    <3>3. QED
      BY <3>1, <3>2, MoveKeepsOpens DEF Using
  <2>2. ASSUME ~GiveUp(r) PROVE Opens'
    <3>1. /\ UNCHANGED <<connection, cache>>
          /\ pc[r] \in {"checking", "receiving"}
          /\ pc'[r] \in {"checking", "receiving", "awaiting"}
          /\ \A s \in Requests \ {r} : pc'[s] = pc[s]
          /\ \A s \in Requests : request'[s].use = request[s].use
      BY <1>8, <2>2, StaysDo
    <3>2. QED
      BY <3>1, MoveKeepsOpens DEF Using
  <2>3. QED
    BY <2>1, <2>2
<1>9. ASSUME NEW r \in Requests, AwaitCompletion(r) PROVE Opens'
  <2>1. ASSUME GiveUp(r) PROVE Opens'
    <3>1. /\ \A d \in Requests : /\ connection'[d].opened = connection[d].opened
                                 /\ connection'[d].socket = connection[d].socket
                                 /\ connection[d].closed => connection'[d].closed
          /\ pc'[r] \in {"attempting", "failed"} /\ cache' \in {cache, NoOne}
          /\ \A s \in Requests \ {r} : pc'[s] = pc[s] /\ request'[s] = request[s]
      BY <1>9, <2>1, GiveUpLeaves
    <3>2. \A d \in Requests : cache' = d => cache = d
      BY <3>1, CodexAssumption DEF CodexAssumption
    <3>3. QED
      BY <3>1, <3>2, MoveKeepsOpens DEF Using
  <2>2. ASSUME ~GiveUp(r) PROVE Opens'
    <3>1. /\ \A d \in Requests : /\ connection'[d].opened = connection[d].opened
                                 /\ connection'[d].socket = connection[d].socket
                                 /\ connection[d].closed => connection'[d].closed
          /\ pc'[r] = "complete" /\ cache' \in {cache, NoOne}
          /\ \A s \in Requests \ {r} : pc'[s] = pc[s]
          /\ UNCHANGED request
      BY <1>9, <2>2, ReleaseLeaves
    <3>2. \A d \in Requests : cache' = d => cache = d
      BY <3>1, CodexAssumption DEF CodexAssumption
    <3>3. QED
      BY <3>1, <3>2, MoveKeepsOpens DEF Using
  <2>3. QED
    BY <2>1, <2>2
<1>10. ASSUME NEW r \in Requests,
              Attempt(r) \/ SetActiveCall(r) \/ Execute(r) \/ Read(r)
      PROVE  Opens'
  <2>1. /\ pc'[r] \in Calling \cup {"complete", "failed"}
        /\ \A s \in Requests \ {r} : pc'[s] = pc[s] /\ request'[s] = request[s]
        /\ UNCHANGED <<connection, cache>>
    BY <1>10, CallingDoes
  <2>2. pc'[r] \notin Using /\ pc'[r] # "inserting"
    BY <2>1 DEF Calling, Using
  <2>3. QED
    BY <2>1, <2>2, MoveKeepsOpens
<1>11. ASSUME NEW r \in Requests,
              Abort(r) \/ SnapshotListeners(r) \/ CallListeners(r)
      PROVE  Opens'
  <2>1. /\ UNCHANGED <<pc, cache>>
        /\ \A s \in Requests : request'[s].use = request[s].use
        /\ \A c \in Requests : /\ connection'[c].socket = connection[c].socket
                               /\ connection'[c].opened = connection[c].opened
                               /\ connection[c].closed => connection'[c].closed
    BY <1>11, SignalDoes
  <2>2. QED
    BY <2>1, MoveKeepsOpens
<1>12. ASSUME NEW r \in Requests, SocketStep(r) PROVE Opens'
  <2>1. /\ UNCHANGED <<pc, cache>>
        /\ \A d \in Requests \ {r} : connection'[d] = connection[d]
    BY <1>12, SocketDoes
  <2>2. \A s \in Requests : request'[s].use = request[s].use
    BY <1>12, SocketTells
  <2>3. /\ connection'[r].opened = "no" <=> connection'[r].socket \in {"none", "connecting"}
        /\ connection'[r].socket = "gone" => connection'[r].closed
        /\ connection[r].opened # "no" => connection'[r].opened # "no"
    BY <1>12, SocketOpens
  <2>4. \A s \in Requests : pc[s] \in Using => request[s].use \in Requests
    BY DEF Users, Uses
  <2>5. QED
    BY <2>1, <2>2, <2>3, <2>4 DEF Opens
<1>13. ASSUME NEW r \in Requests, TimerFires(r) \/ TimerTask(r) PROVE Opens'
  <2>1. pc' = pc /\ request' = request /\ cache' \in {cache, NoOne}
    BY <1>13 DEF TimerFires, TimerTask, WithoutEntry
  <2>2. \A c \in Requests : /\ connection'[c].socket = connection[c].socket
                            /\ connection'[c].opened = connection[c].opened
                            /\ connection[c].closed => connection'[c].closed
    BY <1>13, CloseTypes DEF TimerFires, TimerTask
  <2>3. \A d \in Requests : cache' = d => cache = d
    BY <2>1, CodexAssumption DEF CodexAssumption
  <2>4. QED
    BY <2>1, <2>2, <2>3, MoveKeepsOpens
<1>14. CASE UNCHANGED vars
  BY <1>14 DEF vars, Opens, aborted
<1>15. QED
  BY <1>1, <1>2, <1>3, <1>4, <1>5, <1>6, <1>7, <1>8, <1>9, <1>10, <1>11, <1>12,
     <1>13, <1>14 DEF Next, Advance, Network, Timer, SocketStep

(* Every step keeps Answered: what ends a response, or the connection, is  *)
(* told to the request that reads it.                                      *)
LEMMA AnsweredStep ==
  ASSUME Types, Users, Sockets, Opens, Answered, [Next]_vars
  PROVE  Answered'
<1>1. ASSUME NEW r \in Requests,
              Begin(r) \/ Finish(r) \/ AddListener(r) \/ AwaitOpen(r)
      PROVE  Answered'
  <2>1. /\ UNCHANGED connection
        /\ \A s \in Requests \ {r} : pc'[s] = pc[s] /\ request'[s] = request[s]
    BY <1>1, MovesDo
  <2>2. /\ asked' = asked
        /\ pc'[r] \in {"failed", "attempting", "acquiring", "ended", "rechecking",
                      "sending", "inserting"}
    BY <1>1 DEF Begin, Finish, AddListener, AwaitOpen, Goto, Types, server
  <2>3. QED
    BY <2>1, <2>2, MoveKeepsAnswered DEF Reading, Unsettled
<1>2. ASSUME NEW r \in Requests, Acquire(r) PROVE Answered'
  <2>1. /\ \A s \in Requests \ {r} : pc'[s] = pc[s] /\ request'[s] = request[s]
        /\ pc'[r] \in {"sending", "connecting"}
    BY <1>2, AcquireDoes
  <2>2. UNCHANGED <<connection, asked>>
    BY <1>2 DEF Acquire, server
  <2>3. QED
    BY <2>1, <2>2, MoveKeepsAnswered DEF Reading, Unsettled
<1>3. ASSUME NEW r \in Requests, Connect(r) PROVE Answered'
  <2>1. /\ pc[r] = "connecting" /\ pc'[r] \in {"opening", "adding"}
        /\ \A s \in Requests \ {r} : pc'[s] = pc[s]
        /\ UNCHANGED <<request, asked>>
    BY <1>3 DEF Connect, Goto, Types, server
  <2>2. \A d \in Requests \ {r} : connection'[d] = connection[d]
    BY <1>3, ConnectDoes
  <2>3. connection[r].socket # "deaf"
    BY <2>1 DEF Sockets
  <2>4. QED
    BY <2>1, <2>2, <2>3, MoveKeepsAnswered DEF Reading, Unsettled
<1>4. ASSUME NEW r \in Requests, RecheckFlag(r) PROVE Answered'
  <2>1. /\ pc'[r] = "opening" /\ UNCHANGED <<request, asked>>
        /\ \A s \in Requests \ {r} : pc'[s] = pc[s]
    BY <1>4 DEF RecheckFlag, Goto, Types, server
  <2>2. \A c \in Requests : connection'[c].socket = connection[c].socket
    BY <1>4, CloseTypes DEF RecheckFlag
  <2>3. QED
    BY <2>1, <2>2, MoveKeepsAnswered DEF Reading, Unsettled
<1>5. ASSUME NEW r \in Requests, Insert(r) PROVE Answered'
  <2>1. /\ pc'[r] = "sending" /\ UNCHANGED <<request, connection, asked>>
        /\ \A s \in Requests \ {r} : pc'[s] = pc[s]
    BY <1>5 DEF Insert, Goto, Types, server
  <2>2. QED
    BY <2>1, MoveKeepsAnswered DEF Reading, Unsettled
<1>6. ASSUME NEW r \in Requests, Send(r) PROVE Answered'
  <2>1. ASSUME GiveUp(r), connection[request[r].use].closed PROVE Answered'
    <3>1. /\ \A d \in Requests : connection'[d].socket = connection[d].socket
          /\ pc'[r] \in {"attempting", "failed"}
          /\ \A s \in Requests \ {r} : pc'[s] = pc[s] /\ request'[s] = request[s]
      BY <1>6, <2>1, GiveUpLeaves
    <3>2. asked' = asked
      BY <1>6, <2>1 DEF Send, server
    <3>3. QED
      BY <3>1, <3>2, MoveKeepsAnswered DEF Reading, Unsettled
  <2>2. ASSUME ~connection[request[r].use].closed PROVE Answered'
    <3>1. pc[r] = "sending" /\ pc[r] \in Using
      BY <1>6 DEF Send, Using
    <3>2. PICK c \in Requests : c = request[r].use
      BY <3>1 DEF Users, Uses
    <3>3. /\ \A s \in Requests \ {r} : request'[s] = request[s] /\ pc'[s] = pc[s]
          /\ request'[r].use = c /\ pc'[r] = "checking"
          /\ connection'[c].reader = r
          /\ connection'[c].socket = connection[c].socket
          /\ connection'[c].opened = connection[c].opened
          /\ connection'[c].closed = connection[c].closed
          /\ entry'[c].busy = entry[c].busy /\ entry'[c].timer = entry[c].timer
          /\ entry'[c].task = entry[c].task
          /\ \A d \in Requests \ {c} : connection'[d] = connection[d] /\ entry'[d] = entry[d]
          /\ cache' = cache
      BY <1>6, <2>2, <3>2, SendDoes DEF Types
    <3>4. pc'[r] \in Using /\ pc'[r] \notin Early \cup Opening \cup Calling \cup {"connecting"}
      BY <3>3 DEF Early, Opening, Using, Calling
    <3>5. PICK x : asked' = IF connection[c].socket = "open"
                            THEN [asked EXCEPT ![c] = [by |-> r, created |-> FALSE,
                                                       context |-> x]]
                            ELSE asked
      BY <1>6, <2>2, <3>2 DEF Send
    <3>6. /\ connection[c].socket = "open" \/ connection[c].socket = "deaf"
      BY <2>2, <3>1, <3>2 DEF Opens, Types, Connected, SocketIs
    <3>7. /\ asked'[c].by = r \/ connection'[c].socket = "deaf"
          /\ \A d \in Requests \ {c} : asked'[d] = asked[d]
          /\ asked' = [d \in Requests |-> asked'[d]]
          /\ DOMAIN asked'[c] = {"by", "context", "created"}
      BY <3>3, <3>5, <3>6 DEF Answered
    <3>8. ASSUME NEW s \in Requests, s # r, pc'[s] \in Reading, Unsettled(s)'
          PROVE  \/ asked'[request'[s].use].by = s
                 \/ connection'[request'[s].use].socket = "deaf"
      <4>1. pc[s] \in Reading /\ request'[s] = request[s] /\ Unsettled(s)
        BY <3>3, <3>8 DEF Unsettled
      <4>2. request[s].use \in Requests \ {c}
        BY <3>1, <3>2, <3>8, <4>1 DEF Users, Uses, OneRequestPerConnection, Reading, Using
      <4>3. asked[request[s].use].by = s \/ connection[request[s].use].socket = "deaf"
        BY <4>1 DEF Answered
      <4>4. QED
        BY <3>3, <3>7, <4>1, <4>2, <4>3
    <3>9. \A d \in Requests : DOMAIN asked'[d] = {"by", "context", "created"}
      BY <3>7 DEF Answered
    <3>10. QED
      BY <3>3, <3>7, <3>8, <3>9 DEF Answered
  <2>3. QED
    BY <1>6, <2>1, <2>2 DEF Send
<1>7. ASSUME NEW r \in Requests, CheckAborted(r) PROVE Answered'
  <2>1. ASSUME GiveUp(r) PROVE Answered'
    <3>1. /\ \A d \in Requests : connection'[d].socket = connection[d].socket
          /\ pc'[r] \in {"attempting", "failed"}
          /\ \A s \in Requests \ {r} : pc'[s] = pc[s] /\ request'[s] = request[s]
      BY <1>7, <2>1, GiveUpLeaves
    <3>2. asked' = asked
      BY <1>7 DEF CheckAborted, server
    <3>3. QED
      BY <3>1, <3>2, MoveKeepsAnswered DEF Reading, Unsettled
  <2>2. ASSUME ~GiveUp(r) PROVE Answered'
    <3>1. /\ UNCHANGED <<connection, request, asked>>
          /\ pc[r] = "checking"
          /\ \A s \in Requests \ {r} : pc'[s] = pc[s]
      BY <1>7, <2>2 DEF CheckAborted, Goto, Types, server
    <3>2. QED
      BY <3>1, MoveKeepsAnswered DEF Reading, Unsettled
  <2>3. QED
    BY <2>1, <2>2
<1>8. ASSUME NEW r \in Requests, Receive(r) PROVE Answered'
  <2>1. ASSUME GiveUp(r) PROVE Answered'
    <3>1. /\ \A d \in Requests : connection'[d].socket = connection[d].socket
          /\ pc'[r] \in {"attempting", "failed"}
          /\ \A s \in Requests \ {r} : pc'[s] = pc[s] /\ request'[s] = request[s]
      BY <1>8, <2>1, GiveUpLeaves
    <3>2. asked' = asked
      BY <1>8 DEF Receive, server
    <3>3. QED
      BY <3>1, <3>2, MoveKeepsAnswered DEF Reading, Unsettled
  <2>2. ASSUME ~GiveUp(r) PROVE Answered'
    <3>1. /\ UNCHANGED connection
          /\ pc[r] \in {"checking", "receiving"}
          /\ \A s \in Requests \ {r} : pc'[s] = pc[s]
          /\ \A s \in Requests : request'[s].use = request[s].use
      BY <1>8, <2>2, StaysDo
    <3>2. /\ pc'[r] \in Reading /\ Unsettled(r)' => Unsettled(r)
          /\ \A s \in Requests \ {r} : request'[s] = request[s]
      BY <1>8, <2>2, ReceiveKeepsUnsettled
    <3>3. \A s \in Requests \ {r} : Unsettled(s)' => Unsettled(s)
      BY <3>2 DEF Unsettled
    <3>4. asked' = asked /\ pc[r] \in Reading
      BY <1>8, <3>1 DEF Receive, server, Reading
    <3>5. QED
      BY <3>1, <3>2, <3>3, <3>4, MoveKeepsAnswered
  <2>3. QED
    BY <2>1, <2>2
<1>9. ASSUME NEW r \in Requests, AwaitCompletion(r) PROVE Answered'
  <2>1. ASSUME GiveUp(r) PROVE Answered'
    <3>1. /\ \A d \in Requests : connection'[d].socket = connection[d].socket
          /\ pc'[r] \in {"attempting", "failed"}
          /\ \A s \in Requests \ {r} : pc'[s] = pc[s] /\ request'[s] = request[s]
      BY <1>9, <2>1, GiveUpLeaves
    <3>2. asked' = asked
      BY <1>9 DEF AwaitCompletion, server
    <3>3. QED
      BY <3>1, <3>2, MoveKeepsAnswered DEF Reading, Unsettled
  <2>2. ASSUME ~GiveUp(r) PROVE Answered'
    <3>1. /\ \A d \in Requests : connection'[d].socket = connection[d].socket
          /\ pc'[r] = "complete"
          /\ \A s \in Requests \ {r} : pc'[s] = pc[s]
          /\ UNCHANGED request
      BY <1>9, <2>2, ReleaseLeaves
    <3>2. asked' = asked
      BY <1>9 DEF AwaitCompletion, server
    <3>3. QED
      BY <3>1, <3>2, MoveKeepsAnswered DEF Reading, Unsettled
  <2>3. QED
    BY <2>1, <2>2
<1>10. ASSUME NEW r \in Requests, Attempt(r) PROVE Answered'
  <2>1. /\ pc'[r] \in Calling \cup {"complete", "failed"}
        /\ \A s \in Requests \ {r} : pc'[s] = pc[s] /\ request'[s] = request[s]
        /\ UNCHANGED connection
    BY <1>10, CallingDoes
  <2>2. asked' = asked
    BY <1>10 DEF Attempt, SetActiveCall, Execute, Read, server
  <2>3. pc'[r] \notin Reading
    BY <2>1 DEF Calling, Reading
  <2>4. \A s \in Requests \ {r} : Unsettled(s)' => Unsettled(s)
    BY <2>1 DEF Unsettled
  <2>5. QED
    BY <2>1, <2>2, <2>3, <2>4, MoveKeepsAnswered
<1>11. ASSUME NEW r \in Requests,
              SetActiveCall(r) \/ Execute(r) \/ Read(r)
      PROVE  Answered'
  <2>1. /\ pc'[r] \in Calling \cup {"complete", "failed"}
        /\ \A s \in Requests \ {r} : pc'[s] = pc[s] /\ request'[s] = request[s]
        /\ UNCHANGED connection
    BY <1>11, CallingDoes
  <2>2. asked' = asked
    BY <1>11 DEF Attempt, SetActiveCall, Execute, Read, server
  <2>3. pc'[r] \notin Reading
    BY <2>1 DEF Calling, Reading
  <2>4. \A s \in Requests \ {r} : Unsettled(s)' => Unsettled(s)
    BY <2>1 DEF Unsettled
  <2>5. QED
    BY <2>1, <2>2, <2>3, <2>4, MoveKeepsAnswered
<1>12. ASSUME NEW r \in Requests, Abort(r) PROVE Answered'
  <2>1. /\ UNCHANGED pc
        /\ \A s \in Requests : /\ request'[s].use = request[s].use
                               /\ request'[s].closed = request[s].closed
                               /\ request'[s].channel = request[s].channel
        /\ \A c \in Requests : connection'[c].socket = connection[c].socket
    BY <1>12, SignalDoes
  <2>2. asked' = asked
    BY <1>12 DEF Abort, SnapshotListeners, CallListeners, server
  <2>3. QED
    BY <2>1, <2>2, MoveKeepsAnswered DEF Unsettled
<1>13. ASSUME NEW r \in Requests,
              SnapshotListeners(r) \/ CallListeners(r)
      PROVE  Answered'
  <2>1. /\ UNCHANGED pc
        /\ \A s \in Requests : /\ request'[s].use = request[s].use
                               /\ request'[s].closed = request[s].closed
                               /\ request'[s].channel = request[s].channel
        /\ \A c \in Requests : connection'[c].socket = connection[c].socket
    BY <1>13, SignalDoes
  <2>2. asked' = asked
    BY <1>13 DEF Abort, SnapshotListeners, CallListeners, server
  <2>3. QED
    BY <2>1, <2>2, MoveKeepsAnswered DEF Unsettled
<1>14. ASSUME NEW r \in Requests, SocketStep(r) PROVE Answered'
  <2>1. /\ pc' = pc /\ connection'[r].reader = connection[r].reader
        /\ \A d \in Requests \ {r} : connection'[d] = connection[d]
    BY <1>14, SocketDoes
  <2>2. \A s \in Requests : request'[s].use = request[s].use
    BY <1>14, SocketTells
  <2>3. /\ asked' = [d \in Requests |-> asked'[d]]
        /\ \A d \in Requests : DOMAIN asked'[d] = {"by", "context", "created"}
        /\ \A d \in Requests \ {r} : asked'[d] = asked[d]
    BY <1>14, ServerDoes
  <2>4. ASSUME NEW s \in Requests, pc'[s] \in Reading, Unsettled(s)'
        PROVE  \/ asked'[request'[s].use].by = s
               \/ connection'[request'[s].use].socket = "deaf"
    <3>1. pc[s] \in Reading /\ Unsettled(s)
      BY <1>14, <2>1, <2>4, TellsSettle
    <3>2. PICK c \in Requests : c = request[s].use
      BY <3>1 DEF Users, Uses, Reading, Using
    <3>3. asked[c].by = s \/ connection[c].socket = "deaf"
      BY <3>1, <3>2 DEF Answered
    <3>4. CASE c # r
      BY <2>1, <2>2, <2>3, <3>2, <3>3, <3>4
    <3>5. CASE c = r
      <4>1. connection[r].reader = s
        BY <3>1, <3>2, <3>5 DEF Users, OneRequestPerConnection, Reading, Using
      <4>2. CASE onOpen(r)
        <5>1. connection[r].socket = "connecting"
          BY <4>2 DEF onOpen
        <5>2. QED
          BY <3>1, <3>2, <3>5, <5>1 DEF Opens, Reading, Using
      <4>3. CASE ServerCloses(r)
        <5>1. connection'[r].socket = "deaf"
          BY <1>14, <4>3, ServerDoes
        <5>2. QED
          BY <2>2, <3>2, <3>5, <5>1
      <4>4. CASE ~onOpen(r) /\ ~ServerCloses(r)
        <5>1. /\ connection'[r].socket = connection[r].socket
              /\ asked' = asked \/ asked' = [asked EXCEPT ![r].created = TRUE]
          BY <1>14, <2>4, <4>1, <4>4, TellsSettle
        <5>2. asked'[r].by = asked[r].by
          BY <5>1 DEF Answered
        <5>3. QED
          BY <2>2, <3>2, <3>3, <3>5, <5>1, <5>2
      <4>5. QED
        BY <4>2, <4>3, <4>4
    <3>6. QED
      BY <3>4, <3>5
  <2>5. QED
    BY <2>3, <2>4 DEF Answered
<1>15. ASSUME NEW r \in Requests, TimerFires(r) \/ TimerTask(r) PROVE Answered'
  <2>1. pc' = pc /\ request' = request /\ asked' = asked
    BY <1>15 DEF TimerFires, TimerTask, server
  <2>2. \A c \in Requests : connection'[c].socket = connection[c].socket
    BY <1>15, CloseTypes DEF TimerFires, TimerTask
  <2>3. QED
    BY <2>1, <2>2, MoveKeepsAnswered DEF Unsettled
<1>16. CASE UNCHANGED vars
  BY <1>16 DEF vars, Answered, Unsettled, server, aborted
<1>17. QED
  BY <1>1, <1>2, <1>3, <1>4, <1>5, <1>6, <1>7, <1>8, <1>9, <1>10, <1>11, <1>12,
     <1>13, <1>14, <1>15, <1>16 DEF Next, Advance, Network, Timer, SocketStep

(* Every step keeps Outcomes.                                              *)
LEMMA OutcomesStep ==
  ASSUME Types, Outcomes, [Next]_vars
  PROVE  Outcomes'
<1>1. ASSUME NEW r \in Requests,
              \/ Begin(r) \/ Finish(r) \/ Acquire(r) \/ Connect(r)
              \/ AddListener(r) \/ RecheckFlag(r) \/ AwaitOpen(r) \/ Insert(r)
              \/ Attempt(r) \/ SetActiveCall(r) \/ Execute(r) \/ Read(r)
      PROVE  Outcomes'
  BY <1>1
     DEF Begin, Finish, Acquire, Connect, AddListener, RecheckFlag, AwaitOpen,
         Insert, Attempt, SetActiveCall, Execute, Read, Goto, Types, Outcomes
<1>2. ASSUME NEW r \in Requests,
              Send(r) \/ CheckAborted(r) \/ Receive(r) \/ AwaitCompletion(r)
      PROVE  Outcomes'
  BY <1>2, ZenonT(60)
     DEF Send, CheckAborted, Receive, AwaitCompletion, GiveUp, Goto, Types,
         Outcomes
<1>3. ASSUME NEW r \in Requests,
              \/ Abort(r) \/ SnapshotListeners(r) \/ CallListeners(r)
              \/ SocketStep(r) \/ TimerFires(r) \/ TimerTask(r)
      PROVE  Outcomes'
  BY <1>3, SocketDoes
     DEF Abort, SnapshotListeners, CallListeners, TimerFires, TimerTask, Outcomes
<1>4. CASE UNCHANGED vars
  BY <1>4 DEF vars, Outcomes, aborted
<1>5. QED
  BY <1>1, <1>2, <1>3, <1>4 DEF Next, Advance, Network, Timer, SocketStep

(* The invariant holds before the first request.                           *)
LEMMA InitHolds ==
  ASSUME Init
  PROVE  IInv
<1>1. PICK transport \in Transports :
        request = [r \in Requests |-> NewRequest(transport[r])]
  BY DEF Init
<1>2. \A r \in Requests : request[r] \in Requested /\ request[r].use = NoOne
                          /\ ~request[r].temporary
  <2>1. \A t \in Kinds : NewRequest(t) \in Requested
    BY Literals, ChannelTypes, AttemptTypes DEF NewRequest, Requested
  <2>2. \A r \in Requests : request[r] = NewRequest(transport[r]) /\ transport[r] \in Kinds
    BY <1>1, TransportsAssumption DEF TransportsAssumption, Kinds
  <2>3. \A t \in Kinds : NewRequest(t).use = NoOne /\ ~NewRequest(t).temporary
    BY DEF NewRequest
  <2>4. QED
    BY <2>1, <2>2, <2>3
<1>3. Types
  <2>1. pc \in [Requests -> Steps] /\ outcome \in [Requests -> Ends] /\ cache \in Owner
    BY StepLiterals, Literals DEF Init, Early, Ends
  <2>2. request \in [Requests -> Requested]
    BY <1>1, <1>2
  <2>3. signal \in [Requests -> Signalled]
    BY Literals, Listening DEF Init, Signalled
  <2>4. connection \in [Requests -> Connected]
    BY Literals DEF Init, Connected, SocketIs, Opened
  <2>5. NoContinuation \in Continued
    BY Literals DEF NoContinuation, Continued
  <2>6. entry \in [Requests -> Entered]
    BY <2>5 DEF Init, Entered
  <2>7. QED
    BY <2>1, <2>2, <2>3, <2>4, <2>6 DEF Types
<1>4. \A r \in Requests : pc[r] = "new" /\ pc[r] \in Early
                          /\ pc[r] \notin Opening \cup Using \cup Calling
  BY DEF Init, Early, Opening, Using, Calling
<1>5. /\ cache = NoOne
      /\ \A c \in Requests : /\ ~entry[c].busy /\ ~entry[c].timer /\ ~entry[c].task
                             /\ connection[c].socket = "none" /\ connection[c].opened = "no"
                             /\ connection[c].reader = NoOne
                             /\ signal[c].calling = {} /\ signal[c].listeners = {}
                             /\ outcome[c] = "none"
  BY DEF Init
<1>6. Users
  BY <1>2, <1>4, <1>5, CodexAssumption
     DEF Users, Uses, Entries, OneRequestPerConnection, CodexAssumption
<1>7. Sockets
  BY <1>4, <1>5, CodexAssumption DEF Sockets, CodexAssumption
<1>8. Watched /\ Called /\ Outcomes
  BY <1>4, <1>5 DEF Watched, Called, WalkReaches, Outcomes
<1>9. Reached /\ Opens
  BY <1>4, <1>5, CodexAssumption
     DEF Reached, Opens, CodexAssumption, Opening, Early
<1>10. Answered
  <2>1. asked = [c \in Requests |-> NotAsked]
    BY DEF Init
  <2>2. /\ asked = [c \in Requests |-> asked[c]]
        /\ \A c \in Requests : DOMAIN asked[c] = {"by", "context", "created"}
    BY <2>1 DEF NotAsked
  <2>3. QED
    BY <1>4, <2>2 DEF Answered, Reading, Early, Using
<1>11. QED
  BY <1>3, <1>6, <1>7, <1>8, <1>9, <1>10 DEF IInv

(* The invariant holds in every reachable state.                           *)
THEOREM InductiveInvariant == Spec => []IInv
<1>1. Init => IInv
  BY InitHolds
<1>2. IInv /\ [Next]_vars => IInv'
  BY TypesStep, UsersStep, SocketsStep, WatchedStep, CalledStep, OutcomesStep,
     ReachedStep, OpensStep, AnsweredStep DEF IInv
<1>3. QED
  BY <1>1, <1>2, PTL DEF Spec

(* The variables have their types, every stream ends once, and an idle     *)
(* timer and a user exclude each other.                                    *)
THEOREM TypeCorrect == Spec => []TypeOK
<1>1. IInv => TypeOK
  <2> SUFFICES ASSUME IInv PROVE TypeOK
    OBVIOUS
  <2>1. ASSUME NEW r \in Requests
        PROVE  /\ outcome[r] \in Ends /\ (outcome[r] = "none") = (pc[r] # "ended")
               /\ request[r].attempt \in 0..MaxRetries
               /\ "socket" \in signal[r].listeners => pc[r] \in {"rechecking", "opening"}
    BY DEF IInv, Types, Outcomes, Called, WalkReaches, Requested, Attempts
  <2>2. \A r \in Requests : pc[r] \in Using => request[r].use # NoOne
    BY CodexAssumption DEF IInv, Users, Uses, CodexAssumption
  <2>3. \A c \in Requests : /\ entry[c].timer => ~entry[c].busy
                            /\ connection[c].reader # NoOne => connection[c].socket # "none"
    BY DEF IInv, Users, Entries, Sockets
  <2>4. QED
    BY <2>1, <2>2, <2>3 DEF TypeOK, Ends
<1>2. QED
  BY <1>1, InductiveInvariant, PTL

(* A connection serves one request at a time, however requests overlap     *)
(* when they acquire, insert and release; and one that nobody uses is      *)
(* closed, or has the idle timer or its task to close it.                  *)
THEOREM ConnectionsHaveOneUser == Spec => []ConnectionsAreOwned
<1>1. IInv => ConnectionsAreOwned
  <2> SUFFICES ASSUME IInv PROVE ConnectionsAreOwned
    OBVIOUS
  <2>1. OneRequestPerConnection
    BY DEF IInv, Users
  <2>2. \A r \in Requests : pc[r] \in Opening \cup Using =>
                              pc[r] \notin {"new", "complete", "failed", "ended"}
    BY DEF Opening, Using
  <2>3. IdleIsWatched
    BY <2>2 DEF IInv, Watched, IdleIsWatched
  <2>4. QED
    BY <2>1, <2>3 DEF ConnectionsAreOwned
<1>2. QED
  BY <1>1, InductiveInvariant, PTL

(* The connection a request uses, of which NobodyClosesUsed speaks.        *)
UsedIsOpen(r) ==
  pc[r] \in Using /\ ~connection[request[r].use].closed
    /\ connection'[request[r].use].closed /\ connection'[request[r].use].socket # "gone"
    => aborted(r) \/ pc'[r] \notin Using

(* No step of another request, of a timer or of an abort meant for another *)
(* request closes a connection that is in use.                             *)
LEMMA StepsKeepUsed ==
  ASSUME IInv, Next, NEW r \in Requests
  PROVE  UsedIsOpen(r)
<1> SUFFICES ASSUME pc[r] \in Using, NEW c \in Requests, c = request[r].use,
                    ~connection[c].closed, connection'[c].closed,
                    connection'[c].socket # "gone", ~aborted(r), pc'[r] \in Using
             PROVE  FALSE
  BY DEF UsedIsOpen, IInv, Users, Uses
<1> USE DEF IInv
(* A connection that is opening is nobody else's.                          *)
<1>1. ASSUME NEW s \in Requests, pc[s] \in Opening PROVE c # s
  <2>1. r # s
    BY <1>1 DEF Opening, Using
  <2>2. c = s => Begun(s)
    BY <2>1, UseBegun, CodexAssumption DEF CodexAssumption
  <2>3. QED
    BY <1>1, <2>2 DEF Begun
<1>2. ASSUME NEW s \in Requests, pc[s] \in Using, request[s].use = c PROVE s = r
  BY <1>2 DEF Users, OneRequestPerConnection
<1>3. ASSUME connection' = connection PROVE FALSE
  BY <1>3
<1>4. ASSUME NEW s \in Requests, Begin(s) \/ Finish(s) \/ AddListener(s) \/ AwaitOpen(s)
      PROVE  FALSE
  BY <1>3, <1>4, MovesDo
<1>5. ASSUME NEW s \in Requests, Acquire(s) \/ Insert(s) PROVE FALSE
  BY <1>3, <1>5 DEF Acquire, Insert
<1>6. ASSUME NEW s \in Requests, Connect(s) \/ RecheckFlag(s) PROVE FALSE
  <2>1. pc[s] \in Opening
    BY <1>6 DEF Connect, RecheckFlag, Opening
  <2>2. connection'[c] = connection[c]
    <3>1. CASE Connect(s)
      BY <1>1, <2>1, <3>1, ConnectDoes
    <3>2. CASE RecheckFlag(s)
      BY <1>1, <2>1, <3>2, CloseTypes DEF RecheckFlag
    <3>3. QED
      BY <1>6, <3>1, <3>2
  <2>3. QED
    BY <2>2
<1>7. ASSUME NEW s \in Requests, GiveUp(s),
             \/ Send(s) /\ connection[request[s].use].closed
             \/ CheckAborted(s) \/ Receive(s) \/ AwaitCompletion(s)
      PROVE  FALSE
  <2>1. PICK d \in Requests :
          /\ d = request[s].use /\ pc[s] \in Using
          /\ \A e \in Requests \ {d} : connection'[e] = connection[e]
          /\ pc'[s] \in {"attempting", "failed"}
    BY <1>7, GiveUpLeaves
  <2>2. s = r
    BY <1>2, <2>1
  <2>3. QED
    BY <2>1, <2>2 DEF Using
<1>8. ASSUME NEW s \in Requests, Send(s) PROVE FALSE
  <2>1. CASE ~connection[request[s].use].closed
    <3>1. pc[s] \in Using
      BY <1>8 DEF Send, Using
    <3>2. PICK d \in Requests : d = request[s].use
      BY <3>1 DEF Users, Uses
    <3>3. /\ connection'[d].closed = connection[d].closed
          /\ \A e \in Requests \ {d} : connection'[e] = connection[e]
      BY <1>8, <2>1, <3>2, SendDoes
    <3>4. QED
      BY <3>3
  <2>2. CASE connection[request[s].use].closed
    BY <1>7, <1>8, <2>2 DEF Send
  <2>3. QED
    BY <2>1, <2>2
<1>9. ASSUME NEW s \in Requests, CheckAborted(s) \/ Receive(s) PROVE FALSE
  BY <1>3, <1>7, <1>9, StaysDo
<1>10. ASSUME NEW s \in Requests, AwaitCompletion(s) PROVE FALSE
  <2>1. CASE ~GiveUp(s)
    <3>1. PICK d \in Requests :
            /\ d = request[s].use /\ pc[s] \in Using
            /\ \A e \in Requests \ {d} : connection'[e] = connection[e]
            /\ pc'[s] = "complete"
      BY <1>10, <2>1, ReleaseLeaves
    <3>2. s = r
      BY <1>2, <3>1
    <3>3. QED
      BY <3>1, <3>2 DEF Using
  <2>2. QED
    BY <1>7, <1>10, <2>1
<1>11. ASSUME NEW s \in Requests, Attempt(s) \/ SetActiveCall(s) \/ Execute(s) \/ Read(s)
       PROVE  FALSE
  BY <1>3, <1>11, CallingDoes
<1>12. ASSUME NEW s \in Requests, Abort(s) \/ SnapshotListeners(s) \/ CallListeners(s)
       PROVE  FALSE
  <2>1. /\ "socket" \in signal[s].calling
        /\ \A d \in Requests \ {s} : connection'[d] = connection[d]
    BY <1>3, <1>12, SignalDoes
  <2>2. c = s
    BY <2>1
  <2>3. aborted(s) /\ pc[s] \in {"rechecking", "opening", "inserting"} \cup Using
        /\ request[s].use = s
    BY <2>1, <2>2 DEF Called, WalkReaches
  <2>4. pc[s] \notin Opening
    BY <1>1, <2>2
  <2>5. s = r
    BY <1>2, <2>2, <2>3, <2>4 DEF Opening
  <2>6. QED
    BY <2>3, <2>5
<1>13. ASSUME NEW s \in Requests, SocketStep(s) PROVE FALSE
  BY <1>13, SocketDoes
<1>14. ASSUME NEW s \in Requests, TimerFires(s) \/ TimerTask(s) PROVE FALSE
  <2>1. entry[s].task /\ ~entry[s].busy
        /\ connection' = [connection EXCEPT ![s].closed = TRUE]
    BY <1>3, <1>14 DEF TimerFires, TimerTask
  <2>2. c = s
    BY <2>1, CloseTypes
  <2>3. CASE request[r].temporary
    BY <2>1, <2>2, <2>3 DEF Users, Uses
  <2>4. CASE ~request[r].temporary
    BY <2>1, <2>2, <2>4 DEF Users, Uses
  <2>5. QED
    BY <2>3, <2>4
<1>15. QED
  BY <1>4, <1>5, <1>6, <1>8, <1>9, <1>10, <1>11, <1>12, <1>13, <1>14
     DEF Next, Advance, Network, Timer, SocketStep

(* Nobody closes a connection under the request that uses it.              *)
THEOREM UsedStaysOpen == Spec => NobodyClosesUsed
<1>1. IInv /\ [Next]_vars => [\A r \in Requests : UsedIsOpen(r)]_vars
  BY StepsKeepUsed
<1>2. [\A r \in Requests : UsedIsOpen(r)]_vars <=>
        [\A r \in Requests :
           LET c == request[r].use
           IN  pc[r] \in Using /\ ~connection[c].closed
                 /\ connection'[c].closed /\ connection'[c].socket # "gone"
                 => aborted(r) \/ pc'[r] \notin Using]_vars
  BY DEF UsedIsOpen
<1>3. QED
  BY <1>1, <1>2, InductiveInvariant, PTL DEF Spec, NobodyClosesUsed

-----------------------------------------------------------------------------
(* What was said                                                           *)

(* The items of conversations.                                             *)
Items == {AnswerItem} \cup UNION {ToSet(new) : new \in Inputs}
Talks == Seq(Items)
Asks  == [by : Owner, context : Talks, created : BOOLEAN]

(* A request that reads what comes, and one that has not sent its input.   *)
Listens(r) == pc[r] \in Using \ {"sending"}
Unsent(r)  == pc[r] \in Early \cup Opening \cup {"sending"}

(* The server remembers the input of r and its answer.                     *)
Told(r, input) == remembered[r] = Append(input, AnswerItem)

(* The server's variables have their types.                                *)
TalkTypes == asked \in [Requests -> Asks] /\ remembered \in [Requests -> Talks]

(* A question is answered on a connection that is open, to the request     *)
(* that sent it, which reads nothing else and is not settled.              *)
AskedOf(c) ==
  LET r == asked[c].by
  IN  r # NoOne =>
        /\ connection[c].socket = "open"
        /\ ~Unsent(r)
        /\ asked[c].context = request[r].input
        /\ pc[r] \in Using => request[r].use = c /\ request[r].completion = "open"
        /\ connection[c].reader \in {NoOne, r}

(* The reader of a connection uses it, and what completed it is remembered.*)
ReadBy(c) ==
  LET r == connection[c].reader
  IN  r # NoOne =>
        /\ Listens(r) /\ request[r].use = c
        /\ connection[c].sawCompletion => Told(r, request[r].input)

(* A settled request was answered, and its input is not settled before it  *)
(* is sent.                                                                *)
Settled(r) ==
  /\ Listens(r) /\ request[r].completion = "ok" => Told(r, request[r].input)
  /\ Unsent(r) =>
       request[r].completion = "open" /\ request[r].channel = <<>> /\ ~request[r].closed

(* While the last message of a connection is handled nothing else is       *)
(* answered on it, and its reader stays until it is told, or the           *)
(* connection is closed.                                                   *)
Handles(c) ==
  LET r == connection[c].reader
  IN  /\ connection[c].handling # "no" => connection[c].socket # "none"
      /\ connection[c].handling = "completing" =>
           /\ asked[c].by = NoOne
           /\ connection[c].closed \/ (r # NoOne /\ request[r].completion = "open")
           /\ r # NoOne => connection[c].sawCompletion

(* What a connection continues is remembered, and stays as it is.          *)
Continuable(c) ==
  LET k == entry[c].continuation
  IN  k.response # NoOne =>
        /\ pc[k.response] \in {"complete", "ended"}
        /\ Told(k.response, k.input)
        /\ \A d \in Requests : asked[d].by # k.response

(* A complete request was answered, or its SSE response was cut.           *)
AnsweredOrCut(r) == remembered[r] # <<>> \/ request[r].call = "cut"
Completes(r) ==
  /\ pc[r] = "complete" => AnsweredOrCut(r)
  /\ outcome[r] = "done" => pc[r] = "ended" /\ AnsweredOrCut(r)

TalkInv ==
  /\ TalkTypes
  /\ \A c \in Requests : AskedOf(c) /\ ReadBy(c) /\ Continuable(c) /\ Handles(c)
  /\ \A r \in Requests : Settled(r) /\ Completes(r)

(* The sets of steps are apart.                                            *)
LEMMA Apart ==
  ASSUME NEW r
  PROVE  /\ Listens(r) => pc[r] \in Using /\ ~Unsent(r)
         /\ pc[r] \in Using => Listens(r) \/ pc[r] = "sending"
         /\ pc[r] = "sending" => Unsent(r)
         /\ pc[r] \in {"complete", "ended", "reading"} => pc[r] \notin Using /\ ~Unsent(r) /\ ~Listens(r)
BY DEF Listens, Unsent, Using, Early, Opening

(* Inputs are conversations.                                               *)
LEMMA TalkLiterals ==
  /\ Sent \subseteq Talks /\ AnswerItem \in Items /\ <<>> \in Talks
  /\ NotAsked \in Asks
  /\ \A t \in Talks : Append(t, AnswerItem) \in Talks /\ Append(t, AnswerItem) # <<>>
<1>1. ASSUME NEW new \in Inputs PROVE new \in Talks
  <2>1. new \in Seq(ToSet(new)) /\ ToSet(new) \subseteq Items
    BY InputsAssumption DEF Items, InputsAssumption
  <2>2. QED
    BY <2>1 DEF Talks
<1>2. AnswerItem \in Items /\ <<>> \in Talks
  BY DEF Items, Talks
<1>3. NotAsked \in Asks
  BY <1>2, Literals DEF NotAsked, Asks
<1>4. ASSUME NEW t \in Talks
      PROVE  Append(t, AnswerItem) \in Talks /\ Append(t, AnswerItem) # <<>>
  <2>1. t \in Seq(Items) /\ AnswerItem \in Items
    BY <1>2 DEF Talks
  <2>2. Append(t, AnswerItem) \in Seq(Items) /\ Len(Append(t, AnswerItem)) = Len(t) + 1
        /\ Len(t) \in Nat
    BY <2>1
  <2>3. Len(Append(t, AnswerItem)) # 0
    BY <2>2
  <2>4. QED
    BY <2>2, <2>3 DEF Talks
<1>5. QED
  BY <1>1, <1>2, <1>3, <1>4 DEF Sent

(* What is said on the connections stays, except that a reader may leave,  *)
(* and a continuation may be forgotten.                                    *)
Wires ==
  /\ asked' = asked
  /\ \A c \in Requests :
       /\ \/ connection'[c].reader = connection[c].reader
          \/ connection'[c].reader = NoOne /\ connection'[c].closed
       /\ connection'[c].sawCompletion = connection[c].sawCompletion
       /\ connection'[c].handling = connection[c].handling
       /\ connection[c].closed => connection'[c].closed \/ connection[c].socket = "none"
       /\ connection'[c].socket = connection[c].socket \/ connection[c].socket # "open"
       /\ connection'[c].socket # "none" \/ connection[c].socket = "none"
       /\ entry'[c].continuation \in {entry[c].continuation, NoContinuation}

(* A step of one request with which nobody says anything.                  *)
Quiet(r) ==
  /\ \A s \in Requests \ {r} :
       /\ pc'[s] = pc[s] /\ outcome'[s] = outcome[s]
       /\ remembered'[s] = remembered[s] /\ request'[s] = request[s]
  /\ request'[r].input = request[r].input
  /\ request'[r].use = request[r].use \/ ~Listens(r)
  /\ request'[r].completion = request[r].completion \/ pc'[r] = "ended"
  /\ Unsent(r)' =>
       /\ Unsent(r)
       /\ request'[r].channel = request[r].channel /\ request'[r].closed = request[r].closed
  /\ Listens(r)' => Listens(r)
  /\ Listens(r) /\ ~Listens(r)' => connection'[request[r].use].reader = NoOne
  /\ pc[r] \in {"complete", "ended"} =>
       /\ pc'[r] \in {"complete", "ended"}
       /\ request[r].call = "cut" => request'[r].call = "cut"
  /\ remembered'[r] = remembered[r] \/ (pc[r] = "reading" /\ remembered'[r] # <<>>)
  /\ pc'[r] = "complete" => pc[r] = "complete" \/ AnsweredOrCut(r)'
  /\ outcome'[r] = outcome[r] \/ (pc'[r] = "ended" /\ (outcome'[r] = "done" => pc[r] = "complete"))
  /\ pc[r] = "ended" => pc'[r] = "ended"

(* Who listens after a quiet step listened before, for the same answer.    *)
LEMMA QuietListens ==
  ASSUME NEW r \in Requests, Quiet(r), NEW s \in Requests, Listens(s)'
  PROVE  /\ Listens(s) /\ remembered'[s] = remembered[s]
         /\ request'[s].input = request[s].input /\ request'[s].use = request[s].use
         /\ request'[s].completion = request[s].completion
<1>1. CASE s # r
  BY <1>1 DEF Quiet, Listens
<1>2. CASE s = r
  <2>1. Listens(r) /\ pc'[r] # "ended" /\ pc[r] # "reading"
    BY <1>2 DEF Quiet, Listens, Using
  <2>2. QED
    BY <1>2, <2>1 DEF Quiet
<1>3. QED
  BY <1>1, <1>2

LEMMA QuietKeepsTalk ==
  ASSUME IInv, TalkInv, TalkTypes', NEW r \in Requests, Wires, Quiet(r)
  PROVE  TalkInv'
<1>0. \A s \in Requests : s # r => /\ (Listens(s)' <=> Listens(s)) /\ (Unsent(s)' <=> Unsent(s))
  BY DEF Wires, Quiet, Listens, Unsent
<1>1. ASSUME NEW c \in Requests PROVE AskedOf(c)'
  <2>1. SUFFICES ASSUME NEW s \in Requests, s = asked[c].by, s # NoOne
                 PROVE  /\ connection'[c].socket = "open" /\ ~Unsent(s)'
                        /\ asked[c].context = request'[s].input
                        /\ pc'[s] \in Using => request'[s].use = c /\ request'[s].completion = "open"
                        /\ connection'[c].reader \in {NoOne, s}
    <3>1. asked[c].by \in Owner /\ asked' = asked
      BY DEF TalkInv, TalkTypes, Asks, Wires, Quiet
    <3>2. QED
      BY <3>1 DEF AskedOf, Owner
  <2>2. /\ connection[c].socket = "open" /\ ~Unsent(s) /\ asked[c].context = request[s].input
        /\ pc[s] \in Using => request[s].use = c /\ request[s].completion = "open"
        /\ connection[c].reader \in {NoOne, s}
    BY <2>1 DEF TalkInv, AskedOf
  <2>3. connection'[c].socket = "open" /\ connection'[c].reader \in {NoOne, s}
    BY <2>2 DEF Wires
  <2>4. CASE s # r
    <3>1. ~Unsent(s)'
      BY <1>0, <2>2, <2>4
    <3>2. pc'[s] = pc[s] /\ request'[s] = request[s]
      BY <2>2, <2>4 DEF Wires, Quiet
    <3>3. QED
      BY <2>2, <2>3, <3>1, <3>2
  <2>5. CASE s = r
    <3>1. ~Unsent(r)' /\ asked[c].context = request'[r].input
      BY <2>2, <2>5 DEF Wires, Quiet
    <3>4. ~Unsent(s)' /\ asked[c].context = request'[s].input
      BY <2>5, <3>1 DEF Unsent
    <3>2. ASSUME pc'[r] \in Using PROVE request'[r].use = c /\ request'[r].completion = "open"
      <4>1. Listens(r)' /\ pc'[r] # "ended"
        BY <3>1, <3>2 DEF Listens, Unsent, Using
      <4>2. Listens(r) /\ pc[r] \in Using
        BY <4>1, Apart DEF Wires, Quiet
      <4>3. QED
        BY <2>2, <2>5, <3>2, <4>1, <4>2 DEF Wires, Quiet
    <3>3. QED
      BY <2>3, <2>5, <3>2, <3>4
  <2>6. QED
    BY <2>4, <2>5
<1>2. ASSUME NEW s \in Requests, Listens(s)'
      PROVE  /\ Listens(s) /\ remembered'[s] = remembered[s]
             /\ request'[s].input = request[s].input /\ request'[s].use = request[s].use
             /\ request'[s].completion = request[s].completion
  BY <1>2, QuietListens
<1>3. ASSUME NEW c \in Requests PROVE ReadBy(c)'
  <2>1. CASE connection'[c].reader = NoOne
    BY <2>1 DEF ReadBy
  <2>2. ASSUME NEW s \in Requests, s = connection[c].reader, s # NoOne,
               connection'[c].reader = s
        PROVE  ReadBy(c)'
    <3>1. /\ Listens(s) /\ request[s].use = c
          /\ connection[c].sawCompletion => Told(s, request[s].input)
      BY <2>2 DEF TalkInv, ReadBy
    <3>2. Listens(s)'
      <4>1. s # r => Listens(s)'
        BY <1>0, <3>1
      <4>2. Listens(r) /\ ~Listens(r)' => connection'[request[r].use].reader = NoOne
        BY DEF Wires, Quiet
      <4>3. CASE s = r
        BY <2>2, <3>1, <4>2, <4>3
      <4>4. QED
        BY <4>1, <4>3
    <3>3. connection'[c].sawCompletion = connection[c].sawCompletion
      BY DEF Wires, Quiet
    <3>4. /\ request'[s].use = c
          /\ connection'[c].sawCompletion =>
               remembered'[s] = Append(request'[s].input, AnswerItem)
      BY <1>2, <3>1, <3>2, <3>3 DEF Told
    <3>5. QED
      BY <2>2, <3>2, <3>4 DEF ReadBy, Told
  <2>3. connection[c].reader \in Owner /\ connection'[c].reader \in {connection[c].reader, NoOne}
    BY SMTT(30), ZenonT(60) DEF Wires, IInv, Types, Connected
  <2>4. QED
    BY <2>1, <2>2, <2>3 DEF Owner
<1>4. ASSUME NEW c \in Requests PROVE Continuable(c)'
  <2> DEFINE k == entry[c].continuation
  <2>1. CASE entry'[c].continuation = NoContinuation
    BY <2>1 DEF Continuable, NoContinuation
  <2>2. CASE entry'[c].continuation = k /\ k.response # NoOne
    <3>1. /\ k.response \in Requests /\ pc[k.response] \in {"complete", "ended"}
          /\ Told(k.response, k.input) /\ \A d \in Requests : asked[d].by # k.response
      BY <2>2 DEF TalkInv, Continuable, IInv, Types, Entered, Continued, Owner
    <3> DEFINE q == k.response
    <3>2. pc'[q] \in {"complete", "ended"} /\ remembered'[q] = remembered[q] /\ asked' = asked
      <4>1. CASE q # r
        BY <3>1, <4>1 DEF Wires, Quiet
      <4>2. CASE q = r
        BY <3>1, <4>2 DEF Wires, Quiet
      <4>3. QED
        BY <4>1, <4>2
    <3> HIDE DEF k
    <3>3. QED
      BY <2>2, <3>1, <3>2 DEF Continuable, Told
  <2>3. CASE entry'[c].continuation = k /\ k.response = NoOne
    BY <2>3 DEF Continuable
  <2>4. QED
    BY <2>1, <2>2, <2>3 DEF Wires, Quiet
<1>5. ASSUME NEW s \in Requests PROVE Settled(s)'
  <2>1. Listens(s)' /\ request'[s].completion = "ok" =>
          remembered'[s] = Append(request'[s].input, AnswerItem)
    BY <1>2 DEF TalkInv, Settled, Told
  <2>2. Unsent(s)' => /\ request'[s].completion = "open"
                      /\ request'[s].channel = <<>> /\ ~request'[s].closed
    <3>1. CASE s # r
      BY <1>0, <3>1 DEF TalkInv, Settled, Wires, Quiet
    <3>2. CASE s = r
      <4>1. Unsent(r)' => pc'[r] # "ended"
        BY DEF Unsent, Early, Opening
      <4>2. QED
        BY <3>2, <4>1 DEF TalkInv, Settled, Wires, Quiet
    <3>3. QED
      BY <3>1, <3>2
  <2>3. QED
    BY <2>1, <2>2 DEF Settled, Told
<1>6. ASSUME NEW s \in Requests PROVE Completes(s)'
  <2>1. CASE s # r
    BY <2>1 DEF TalkInv, Completes, AnsweredOrCut, Wires, Quiet
  <2>2. CASE s = r
    <3>1. pc[r] \in {"complete", "ended"} /\ AnsweredOrCut(r) => AnsweredOrCut(r)'
      BY DEF AnsweredOrCut, Wires, Quiet
    <3>2. QED
      BY <2>2, <3>1 DEF TalkInv, Completes, Wires, Quiet
  <2>3. QED
    BY <2>1, <2>2
<1>7. ASSUME NEW c \in Requests PROVE Handles(c)'
  <2>1. /\ connection'[c].handling = connection[c].handling /\ asked'[c] = asked[c]
        /\ connection'[c].sawCompletion = connection[c].sawCompletion
        /\ connection[c].closed => connection'[c].closed \/ connection[c].socket = "none"
        /\ connection'[c].socket # "none" \/ connection[c].socket = "none"
        /\ \/ connection'[c].reader = connection[c].reader
           \/ connection'[c].reader = NoOne /\ connection'[c].closed
    BY SMTT(30), ZenonT(60) DEF Wires
  <2>2. /\ connection[c].handling # "no" => connection[c].socket # "none"
        /\ connection[c].handling = "completing" =>
             /\ asked[c].by = NoOne
             /\ \/ connection[c].closed
                \/ /\ connection[c].reader # NoOne
                   /\ request[connection[c].reader].completion = "open"
             /\ connection[c].reader # NoOne => connection[c].sawCompletion
    BY DEF TalkInv, Handles
  <2>3. ASSUME NEW s \in Requests, s = connection[c].reader, s # NoOne, connection'[c].reader = s
        PROVE  request'[s].completion = request[s].completion
    <3>1. ReadBy(c)'
      BY <1>3
    <3>2. Listens(s)'
      BY <2>3, <3>1 DEF ReadBy
    <3>3. QED
      BY <1>2, <3>2
  <2>4. connection[c].reader \in Requests \/ connection[c].reader = NoOne
    BY DEF IInv, Types, Connected, Owner
  <2>5. connection'[c].handling = "completing" =>
             \/ connection'[c].closed
             \/ /\ connection'[c].reader # NoOne
                /\ request'[connection'[c].reader].completion = "open"
    BY <2>1, <2>2, <2>3, <2>4
  <2>6. QED
    BY <2>1, <2>2, <2>5 DEF Handles
<1>8. QED
  BY <1>1, <1>3, <1>4, <1>5, <1>6, <1>7 DEF TalkInv

(* The steps that say nothing.                                             *)
LEMMA SilenceKeepsTypes ==
  ASSUME TalkTypes, asked' = asked, remembered' = remembered
  PROVE  TalkTypes'
BY DEF TalkTypes

LEMMA SilentConnections ==
  ASSUME asked' = asked, connection' = connection,
         \A c \in Requests : entry'[c].continuation \in {entry[c].continuation, NoContinuation}
  PROVE  Wires
BY DEF Wires

(* Of the steps that lead to a connection, none touches one that is in use.*)
LEMMA OpeningIsQuiet ==
  ASSUME IInv, NEW r \in Requests,
         \/ Begin(r) \/ Acquire(r) \/ Connect(r) \/ AddListener(r)
         \/ RecheckFlag(r) \/ AwaitOpen(r) \/ Insert(r)
  PROVE  Wires /\ Quiet(r) /\ asked' = asked /\ remembered' = remembered
<1> USE DEF IInv
<1>1. /\ asked' = asked /\ remembered' = remembered /\ outcome' = outcome
      /\ pc[r] \in Early \cup Opening
      /\ pc'[r] \in Early \cup Opening \cup {"sending", "attempting", "failed"}
      /\ \A s \in Requests \ {r} : pc'[s] = pc[s]
  BY DEF Begin, Acquire, Connect, AddListener, RecheckFlag, AwaitOpen, Insert, Goto, Early,
         Opening, server, Types
<1>2. /\ \A s \in Requests \ {r} : request'[s] = request[s]
      /\ request'[r].input = request[r].input /\ request'[r].completion = request[r].completion
      /\ request'[r].channel = request[r].channel /\ request'[r].closed = request[r].closed
  <2>1. CASE Acquire(r)
    <3>1. \/ request' = [request EXCEPT ![r].use = cache]
          \/ \E t \in BOOLEAN : request' = [request EXCEPT ![r].use = r, ![r].temporary = t]
      BY <2>1 DEF Acquire
    <3>2. QED
      BY <3>1 DEF Types, Requested
  <2>2. CASE ~Acquire(r)
    BY <2>2 DEF Begin, Connect, AddListener, RecheckFlag, AwaitOpen, Insert
  <2>3. QED
    BY <2>1, <2>2
<1>3. /\ Unsent(r) /\ ~Listens(r) /\ ~Listens(r)'
      /\ pc[r] \notin {"complete", "ended", "reading"} /\ pc'[r] \notin {"complete", "ended"}
  BY <1>1 DEF Unsent, Listens, Using, Early, Opening
<1>4. Quiet(r)
  BY <1>1, <1>2, <1>3 DEF Quiet
<1>5. \A c \in Requests : entry'[c].continuation \in {entry[c].continuation, NoContinuation}
  <2>1. CASE Acquire(r)
    <3>1. \/ entry' = entry
          \/ /\ cache \in Requests
             /\ \/ entry' = [entry EXCEPT ![cache].busy = TRUE, ![cache].timer = FALSE]
                \/ entry' = [entry EXCEPT ![cache].timer = FALSE]
      BY <2>1 DEF Acquire, Reusable, Types, Owner
    <3>2. QED
      BY <3>1 DEF Types, Entered
  <2>2. CASE ~Acquire(r)
    BY <2>2 DEF Begin, Connect, AddListener, RecheckFlag, AwaitOpen, Insert, Types, Entered
  <2>3. QED
    BY <2>1, <2>2
<1>6. \A c \in Requests :
        /\ connection'[c].reader = connection[c].reader
        /\ connection'[c].sawCompletion = connection[c].sawCompletion
        /\ connection'[c].handling = connection[c].handling
        /\ connection[c].closed => connection'[c].closed \/ connection[c].socket = "none"
        /\ connection'[c].socket = connection[c].socket \/ connection[c].socket # "open"
        /\ connection'[c].socket # "none" \/ connection[c].socket = "none"
  <2>1. CASE Connect(r)
    <3>1. connection[r].socket = "none"
      BY <2>1 DEF Connect, Sockets
    <3>2. PICK b \in BOOLEAN : b = aborted(r)
      BY DEF aborted
    <3>3. connection' = [connection EXCEPT ![r].socket = "connecting", ![r].closed = b]
      BY <2>1, <3>2 DEF Connect
    <3>4. QED
      BY <3>1, <3>3 DEF Types, Connected
  <2>2. CASE RecheckFlag(r)
    <3>1. connection' = connection \/ connection' = [connection EXCEPT ![r].closed = TRUE]
      BY <2>2 DEF RecheckFlag
    <3>2. QED
      BY <3>1 DEF Types, Connected
  <2>3. CASE ~Connect(r) /\ ~RecheckFlag(r)
    BY <2>3 DEF Begin, Acquire, AddListener, AwaitOpen, Insert
  <2>4. QED
    BY <2>1, <2>2, <2>3
<1>7. QED
  BY <1>1, <1>4, <1>5, <1>6 DEF Wires

(* Nor do the ones of a request over SSE, nor its end: a response that was *)
(* read to the end is remembered, one that was cut is marked.              *)
LEMMA CallingIsQuiet ==
  ASSUME IInv, TalkTypes, NEW r \in Requests,
         Attempt(r) \/ SetActiveCall(r) \/ Execute(r) \/ Read(r)
  PROVE  Wires /\ Quiet(r) /\ TalkTypes'
<1> USE DEF IInv
<1>1. /\ pc[r] \in Calling /\ pc'[r] \in Calling \cup {"complete", "failed"}
      /\ \A s \in Requests \ {r} : pc'[s] = pc[s] /\ request'[s] = request[s]
      /\ UNCHANGED <<outcome, connection, entry>>
  BY CallingDoes
<1>2. asked' = asked
  BY DEF Attempt, SetActiveCall, Execute, Read, server
<1>3. Wires
  BY <1>1, <1>2, SilentConnections
<1>4. request'[r].input = request[r].input /\ request'[r].completion = request[r].completion
  <2>1. CASE Execute(r)
    <3>1. \/ request' = request
          \/ \E n \in Nat : request' = [request EXCEPT ![r].call = "none", ![r].attempt = n]
      BY <2>1, CodexAssumption DEF Execute, Types, Requested, Attempts, CodexAssumption
    <3>2. QED
      BY <3>1 DEF Types, Requested
  <2>2. CASE SetActiveCall(r)
    BY <2>2 DEF SetActiveCall, Types, Requested
  <2>3. CASE Read(r)
    BY <2>3 DEF Read, Types, Requested
  <2>4. CASE Attempt(r)
    BY <2>4 DEF Attempt
  <2>5. QED
    BY <2>1, <2>2, <2>3, <2>4
<1>5. /\ remembered' = remembered
         \/ (pc[r] = "reading" /\ remembered' = [remembered EXCEPT ![r] = <<AnswerItem>>])
      /\ pc'[r] = "complete" =>
           \/ remembered' = [remembered EXCEPT ![r] = <<AnswerItem>>]
           \/ request'[r].call = "cut"
  <2>1. CASE Read(r)
    <3>1. request[r] \in Requested
      BY DEF Types
    <3>2. request' = [request EXCEPT ![r].call = "cut"] => request'[r].call = "cut"
      BY DEF Types, Requested
    <3>3. QED
      BY <2>1, <3>2 DEF Read, Goto, Types
  <2>2. CASE ~Read(r)
    BY <2>2 DEF Attempt, SetActiveCall, Execute, Goto, Types, server
  <2>3. QED
    BY <2>1, <2>2
<1>6. /\ TalkTypes'
      /\ \A s \in Requests \ {r} : remembered'[s] = remembered[s]
      /\ remembered'[r] = remembered[r] \/ (pc[r] = "reading" /\ remembered'[r] # <<>>)
      /\ pc'[r] = "complete" => remembered'[r] # <<>> \/ request'[r].call = "cut"
  <2>1. <<AnswerItem>> \in Talks /\ <<AnswerItem>> # <<>>
    BY TalkLiterals DEF Talks
  <2>2. QED
    BY <1>2, <1>5, <2>1 DEF TalkTypes
<1>7. /\ ~Unsent(r)' /\ ~Listens(r) /\ ~Listens(r)'
      /\ pc[r] \notin {"complete", "ended"} /\ pc'[r] # "ended"
  BY <1>1 DEF Unsent, Listens, Using, Early, Opening, Calling
<1>8. Quiet(r)
  BY <1>1, <1>4, <1>6, <1>7 DEF Quiet, AnsweredOrCut
<1>9. QED
  BY <1>3, <1>6, <1>8

LEMMA FinishIsQuiet ==
  ASSUME IInv, NEW r \in Requests, Finish(r)
  PROVE  Wires /\ Quiet(r) /\ asked' = asked /\ remembered' = remembered
<1> USE DEF IInv
<1>1. /\ asked' = asked /\ remembered' = remembered
      /\ connection' = connection /\ entry' = entry
      /\ pc[r] \in {"complete", "failed"} /\ pc'[r] = "ended"
      /\ \A s \in Requests \ {r} : pc'[s] = pc[s] /\ request'[s] = request[s]
                                   /\ outcome'[s] = outcome[s]
      /\ outcome'[r] = "done" => pc[r] = "complete"
  BY DEF Finish, Goto, server, Types
<1>2. Wires
  BY <1>1, SilentConnections
<1>3. request'[r].input = request[r].input /\ request'[r].call = request[r].call
  BY DEF Finish, NewRequest, Types, Requested
<1>4. ~Unsent(r)' /\ ~Listens(r) /\ ~Listens(r)'
  BY <1>1 DEF Unsent, Listens, Using, Early, Opening
<1>5. Quiet(r)
  BY <1>1, <1>3, <1>4 DEF Quiet
<1>6. QED
  BY <1>1, <1>2, <1>5

(* A request that gives up leaves its connection without a reader and      *)
(* without a continuation.                                                 *)
LEMMA GiveUpIsQuiet ==
  ASSUME IInv, NEW r \in Requests, GiveUp(r),
         \/ Send(r) /\ connection[request[r].use].closed
         \/ CheckAborted(r) \/ Receive(r) \/ AwaitCompletion(r)
  PROVE  Wires /\ Quiet(r) /\ asked' = asked /\ remembered' = remembered
<1> USE DEF IInv
<1>1. PICK c \in Requests :
        /\ c = request[r].use /\ pc[r] \in Using
        /\ connection'[c].reader = NoOne /\ connection'[c].closed
        /\ connection'[c].socket = connection[c].socket
        /\ \A d \in Requests \ {c} : connection'[d] = connection[d] /\ entry'[d] = entry[d]
        /\ pc'[r] \in {"attempting", "failed"}
        /\ \A s \in Requests \ {r} : pc'[s] = pc[s] /\ request'[s] = request[s]
        /\ request'[r].use = request[r].use
  BY GiveUpLeaves, SMTT(30), ZenonT(60)
<1>2. asked' = asked /\ remembered' = remembered /\ outcome' = outcome
  BY SMTT(30), ZenonT(60) DEF Send, CheckAborted, Receive, AwaitCompletion, server
<1>3. /\ connection'[c].sawCompletion = connection[c].sawCompletion
      /\ connection'[c].handling = connection[c].handling
  BY <1>1, SMTT(30), ZenonT(60) DEF GiveUp, Closed, Types, Connected
<1>4. entry'[c].continuation = NoContinuation
  BY <1>1 DEF GiveUp, Types, Entered
<1>5. Wires
  BY <1>1, <1>2, <1>3, <1>4 DEF Wires
<1>6. request'[r].input = request[r].input /\ request'[r].completion = request[r].completion
  <2>1. CASE Receive(r)
    BY <2>1, ReceiveDoes
  <2>2. CASE ~Receive(r)
    BY <2>2 DEF Send, CheckAborted, AwaitCompletion
  <2>3. QED
    BY <2>1, <2>2
<1>7. /\ ~Unsent(r)' /\ ~Listens(r)'
      /\ pc[r] \notin {"complete", "ended", "reading"} /\ pc'[r] \notin {"complete", "ended"}
  BY <1>1 DEF Unsent, Listens, Using, Early, Opening
<1>8. Quiet(r)
  BY <1>1, <1>2, <1>6, <1>7 DEF Quiet
<1>9. QED
  BY <1>2, <1>5, <1>8

LEMMA StayIsQuiet ==
  ASSUME IInv, NEW r \in Requests, ~GiveUp(r), CheckAborted(r) \/ Receive(r)
  PROVE  Wires /\ Quiet(r) /\ asked' = asked /\ remembered' = remembered
<1> USE DEF IInv
<1>1. /\ UNCHANGED <<connection, cache, entry>>
      /\ pc[r] \in {"checking", "receiving"}
      /\ pc'[r] \in {"checking", "receiving", "awaiting"}
      /\ \A s \in Requests \ {r} : pc'[s] = pc[s]
      /\ request'[r].use = request[r].use
  BY StaysDo
<1>2. asked' = asked /\ remembered' = remembered /\ outcome' = outcome
  BY DEF CheckAborted, Receive, server
<1>3. Wires
  BY <1>1, <1>2, SilentConnections
<1>4. /\ \A s \in Requests \ {r} : request'[s] = request[s]
      /\ request'[r].input = request[r].input /\ request'[r].completion = request[r].completion
  BY ReceiveDoes DEF CheckAborted
<1>5. /\ ~Unsent(r)' /\ Listens(r) /\ Listens(r)'
      /\ pc[r] \notin {"complete", "ended", "reading"} /\ pc'[r] \notin {"complete", "ended"}
  BY <1>1 DEF Unsent, Listens, Using, Early, Opening
<1>6. Quiet(r)
  BY <1>1, <1>2, <1>4, <1>5 DEF Quiet
<1>7. QED
  BY <1>2, <1>3, <1>6

(* Nobody speaks while every request stays where it is.                    *)
LEMMA StillIsQuiet ==
  ASSUME NEW r \in Requests, pc' = pc, outcome' = outcome, remembered' = remembered,
         \A s \in Requests \ {r} : request'[s] = request[s],
         request'[r].input = request[r].input, request'[r].use = request[r].use,
         request'[r].completion = request[r].completion,
         request'[r].channel = request[r].channel, request'[r].closed = request[r].closed,
         request[r].call = "cut" => request'[r].call = "cut"
  PROVE  Quiet(r)
<1>1. (Unsent(r)' <=> Unsent(r)) /\ (Listens(r)' <=> Listens(r))
  BY DEF Unsent, Listens
<1>2. pc[r] = "complete" => pc'[r] = "complete"
  OBVIOUS
<1>3. QED
  BY <1>1, <1>2 DEF Quiet

LEMMA SignalIsQuiet ==
  ASSUME IInv, NEW r \in Requests, Abort(r) \/ SnapshotListeners(r) \/ CallListeners(r)
  PROVE  Wires /\ Quiet(r) /\ asked' = asked /\ remembered' = remembered
<1> USE DEF IInv
<1>1. /\ UNCHANGED <<pc, outcome, entry>>
      /\ \A s \in Requests : /\ request'[s].use = request[s].use
                             /\ request'[s].completion = request[s].completion
                             /\ request'[s].channel = request[s].channel
                             /\ request'[s].closed = request[s].closed
      /\ \A c \in Requests : /\ connection'[c].reader = connection[c].reader
                             /\ connection'[c].socket = connection[c].socket
                             /\ connection[c].closed => connection'[c].closed
  BY SignalDoes
<1>2. asked' = asked /\ remembered' = remembered
  BY DEF Abort, SnapshotListeners, CallListeners, server
<1>3. /\ \A s \in Requests \ {r} : request'[s] = request[s]
      /\ request'[r].input = request[r].input
      /\ request[r].call = "cut" => request'[r].call = "cut"
  BY DEF Abort, SnapshotListeners, CallListeners, Types, Requested
<1>4. \A c \in Requests : /\ connection'[c].sawCompletion = connection[c].sawCompletion
                          /\ connection'[c].handling = connection[c].handling
  <2>1. \/ connection' = connection
        \/ \E b \in BOOLEAN : connection' = [connection EXCEPT ![r].closed = b]
    <3>1. PICK b \in BOOLEAN : b = (connection[r].closed \/ "socket" \in signal[r].calling)
      OBVIOUS
    <3>2. QED
      BY <3>1 DEF Abort, SnapshotListeners, CallListeners
  <2>2. QED
    BY <2>1 DEF Types, Connected
<1>5. Wires
  BY <1>1, <1>2, <1>4 DEF Wires
<1>6. Quiet(r)
  BY <1>1, <1>2, <1>3, StillIsQuiet
<1>7. QED
  BY <1>2, <1>5, <1>6

LEMMA TimerIsQuiet ==
  ASSUME IInv, NEW c \in Requests, TimerFires(c) \/ TimerTask(c) \/ onOpen(c)
  PROVE  Wires /\ Quiet(c) /\ asked' = asked /\ remembered' = remembered
<1> USE DEF IInv
<1>1. UNCHANGED <<pc, request, outcome, asked, remembered>>
  BY DEF TimerFires, TimerTask, onOpen, server
<1>2. \/ connection' = connection
      \/ connection' = [connection EXCEPT ![c].closed = TRUE]
      \/ /\ connection' = [connection EXCEPT ![c].socket = "open", ![c].opened = "yes"]
         /\ connection[c].socket = "connecting"
  BY DEF TimerFires, TimerTask, onOpen
<1>3. \A d \in Requests :
        /\ connection'[d].reader = connection[d].reader
        /\ connection'[d].sawCompletion = connection[d].sawCompletion
        /\ connection'[d].handling = connection[d].handling
        /\ connection[d].closed => connection'[d].closed
        /\ connection'[d].socket = connection[d].socket \/ connection[d].socket # "open"
        /\ connection'[d].socket # "none" \/ connection[d].socket = "none"
  <2>1. CASE connection' = connection
    BY <2>1
  <2>2. CASE connection' = [connection EXCEPT ![c].closed = TRUE]
    BY <2>2 DEF Types, Connected
  <2>3. CASE /\ connection' = [connection EXCEPT ![c].socket = "open", ![c].opened = "yes"]
             /\ connection[c].socket = "connecting"
    BY <2>3 DEF Types, Connected
  <2>4. QED
    BY <1>2, <2>1, <2>2, <2>3
<1>4. \A d \in Requests : entry'[d].continuation = entry[d].continuation
  BY DEF TimerFires, TimerTask, onOpen, Types, Entered
<1>5. Quiet(c)
  BY <1>1, StillIsQuiet
<1>6. QED
  BY <1>1, <1>3, <1>4, <1>5 DEF Wires

(* The delta makes up what the continuation leaves out: a conversation     *)
(* starts with its prefix and goes on with the rest.                       *)
LEMMA PrefixAndRest ==
  ASSUME NEW T, NEW p \in Seq(T), NEW s \in Seq(T), IsPrefix(p, s)
  PROVE  p \o SubSeq(s, Len(p) + 1, Len(s)) = s
<1> DEFINE n == Len(p)
           m == Len(s)
           u == SubSeq(s, n + 1, m)
           t == p \o u
<1>1. /\ n \in Nat /\ m \in Nat /\ n <= m
      /\ SubSeq(p, 1, n) = SubSeq(s, 1, n)
  BY DEF IsPrefix
<1>2. ASSUME NEW i \in 1..n PROVE p[i] = s[i]
  <2>1. SubSeq(p, 1, n)[i] = p[i] /\ SubSeq(s, 1, n)[i] = s[i]
    BY <1>1
  <2>2. QED
    BY <1>1, <2>1
<1>3. u \in Seq(T) /\ Len(u) = m - n /\ \A i \in 1..(m - n) : u[i] = s[n + i]
  BY <1>1
<1> HIDE DEF u
<1>4. /\ t \in Seq(T) /\ Len(t) = m
      /\ \A i \in 1..m : t[i] = IF i <= n THEN p[i] ELSE u[i - n]
  BY <1>1, <1>3
<1> HIDE DEF t
<1>5. ASSUME NEW i \in 1..m PROVE t[i] = s[i]
  <2>1. CASE i <= n
    BY <1>1, <1>2, <1>4, <2>1
  <2>2. CASE i > n
    <3>1. i - n \in 1..(m - n)
      BY <1>1, <2>2
    <3>2. u[i - n] = s[n + (i - n)] /\ n + (i - n) = i
      BY <1>1, <1>3, <3>1, SMTT(30), ZenonT(60)
    <3>3. QED
      BY <1>1, <1>4, <2>2, <3>2
  <2>3. QED
    BY <1>1, <2>1, <2>2
<1>6. t = s
  BY <1>4, <1>5
<1>7. QED
  BY <1>6 DEF t, u

LEMMA DeltaMakesWhole ==
  ASSUME IInv, TalkInv, NEW r \in Requests, NEW new \in Inputs, request[r].use \in Requests
  PROVE  Conversation(r, new) = new
<1> DEFINE c == request[r].use
           k == entry[c].continuation
<1>1. CASE ~(IsCached(r) /\ Continues(new, k))
  BY <1>1, SMTT(30), ZenonT(60) DEF Conversation
<1>2. CASE IsCached(r) /\ Continues(new, k)
  <2> DEFINE p == Append(k.input, AnswerItem)
  <2>1. k.input \in Talks /\ new \in Talks
    <3>1. k.input \in Sent /\ new \in Sent
      BY Literals, SMTT(30), ZenonT(60) DEF IInv, Types, Entered, Continued
    <3>2. QED
      BY <3>1, TalkLiterals
  <2>2. remembered[k.response] = p
    BY <1>2 DEF Continues, TalkInv, Continuable, Told
  <2>3. p \in Seq(Items) /\ Len(p) + 1 = Len(k.input) + 2
    BY <2>1, TalkLiterals DEF Talks
  <2>4. IsPrefix(p, new)
    BY <1>2 DEF Continues
  <2>5. p \o SubSeq(new, Len(p) + 1, Len(new)) = new
    BY <2>1, <2>3, <2>4, PrefixAndRest, SMTT(30), ZenonT(60) DEF Talks
  <2>6. Conversation(r, new) = remembered[k.response] \o SubSeq(new, Len(k.input) + 2, Len(new))
    BY <1>2 DEF Conversation
  <2>7. QED
    BY <2>2, <2>3, <2>5, <2>6
<1>3. QED
  BY <1>1, <1>2

(* A request that sends is asked its whole input, on a connection where    *)
(* no question is open.                                                    *)
LEMMA SendKeepsTalk ==
  ASSUME IInv, TalkInv, NEW r \in Requests, Send(r), ~connection[request[r].use].closed
  PROVE  TalkInv'
<1> USE DEF IInv
<1>1. pc[r] = "sending" /\ pc[r] \in Using
  BY DEF Send, Using
<1>2. PICK c \in Requests : c = request[r].use
  BY <1>1, SMTT(30), ZenonT(60) DEF Users, Uses
<1>3. PICK new \in Inputs :
        /\ request' = [request EXCEPT ![r].started = TRUE, ![r].input = new]
        /\ connection' = [connection EXCEPT ![c].reader = r, ![c].sawCompletion = FALSE]
        /\ entry' = IF IsCached(r) /\ ~Continues(new, entry[c].continuation)
                    THEN [entry EXCEPT ![c].continuation = NoContinuation] ELSE entry
        /\ asked' = IF connection[c].socket = "open"
                    THEN [asked EXCEPT ![c] = [by |-> r, created |-> FALSE,
                                               context |-> Conversation(r, new)]]
                    ELSE asked
        /\ pc' = [pc EXCEPT ![r] = "checking"]
        /\ remembered' = remembered /\ outcome' = outcome
  BY <1>2 DEF Send, Goto
<1>4. Conversation(r, new) = new /\ new \in Talks
  BY <1>2, DeltaMakesWhole, TalkLiterals, Literals
<1>5. /\ request'[r].input = new /\ request'[r].use = c /\ request'[r].call = request[r].call
      /\ request'[r].completion = "open"
      /\ \A s \in Requests \ {r} : request'[s] = request[s] /\ pc'[s] = pc[s]
  <2>1. request'[r].completion = request[r].completion /\ Unsent(r)
    BY <1>1, <1>3 DEF Types, Requested, Unsent
  <2>2. QED
    BY <1>2, <1>3, <2>1 DEF Types, Requested, TalkInv, Settled
<1>6. /\ connection'[c].reader = r /\ ~connection'[c].sawCompletion
      /\ connection'[c].socket = connection[c].socket
      /\ connection'[c].handling = connection[c].handling
      /\ \A d \in Requests \ {c} : connection'[d] = connection[d]
  BY <1>3 DEF Types, Connected
<1>7. /\ \A d \in Requests \ {c} : asked'[d] = asked[d]
      /\ connection[c].socket = "open" => asked'[c].by = r /\ asked'[c].context = new
      /\ connection[c].socket # "open" => asked' = asked
      /\ TalkTypes'
  <2>1. [by |-> r, created |-> FALSE, context |-> new] \in Asks
    BY <1>4, Literals DEF Asks
  <2>2. QED
    BY <1>3, <1>4, <2>1 DEF TalkInv, TalkTypes
<1>8. /\ pc[r] \notin {"complete", "ended", "reading"} /\ Unsent(r) /\ ~Listens(r)
      /\ pc'[r] = "checking" /\ pc'[r] \in Using /\ ~Unsent(r)' /\ Listens(r)'
  BY <1>1, <1>3 DEF Types, Unsent, Listens, Using, Early, Opening
<1>9. \A s \in Requests \ {r} : (Listens(s)' <=> Listens(s)) /\ (Unsent(s)' <=> Unsent(s))
  BY <1>5 DEF Listens, Unsent
(* The question that was asked is the only one of its connection.          *)
<1>10. ASSUME NEW d \in Requests PROVE AskedOf(d)'
  <2>1. CASE d = c /\ connection[c].socket = "open"
    <3>1. asked'[d].by = r /\ asked'[d].context = new
      BY <1>7, <2>1
    <3>2. QED
      BY <1>5, <1>6, <1>8, <2>1, <3>1 DEF AskedOf
  <2>2. CASE d = c /\ connection[c].socket # "open"
    <3>1. asked'[d].by = NoOne
      BY <1>7, <2>2 DEF TalkInv, AskedOf
    <3>2. QED
      BY <3>1 DEF AskedOf
  <2>3. CASE d # c
    <3>1. asked'[d] = asked[d] /\ connection'[d] = connection[d]
      BY <1>6, <1>7, <2>3
    <3>2. SUFFICES ASSUME NEW s \in Requests, s = asked[d].by, s # NoOne
                   PROVE  /\ connection'[d].socket = "open" /\ ~Unsent(s)'
                          /\ asked[d].context = request'[s].input
                          /\ pc'[s] \in Using => request'[s].use = d /\ request'[s].completion = "open"
                          /\ connection'[d].reader \in {NoOne, s}
      BY <3>1 DEF AskedOf, TalkInv, TalkTypes, Asks, Owner
    <3>3. /\ connection[d].socket = "open" /\ ~Unsent(s)
          /\ asked[d].context = request[s].input
          /\ pc[s] \in Using => request[s].use = d /\ request[s].completion = "open"
          /\ connection[d].reader \in {NoOne, s}
      BY <3>2 DEF AskedOf, TalkInv
    <3>4. s # r
      BY <1>8, <3>3
    <3>5. ~Unsent(s)' /\ request'[s] = request[s] /\ pc'[s] = pc[s]
      BY <1>5, <1>9, <3>3, <3>4
    <3>6. QED
      BY <3>1, <3>3, <3>5
  <2>4. QED
    BY <2>1, <2>2, <2>3
<1>11. ASSUME NEW d \in Requests PROVE ReadBy(d)'
  <2>1. CASE d = c
    BY <1>5, <1>6, <1>8, <2>1 DEF ReadBy
  <2>2. CASE d # c
    <3>1. connection'[d] = connection[d]
      BY <1>6, <2>2
    <3>2. CASE connection[d].reader = NoOne
      BY <3>1, <3>2 DEF ReadBy
    <3>3. ASSUME NEW s \in Requests, s = connection[d].reader, s # NoOne PROVE ReadBy(d)'
      <4>1. /\ Listens(s) /\ request[s].use = d
            /\ connection[d].sawCompletion => Told(s, request[s].input)
        BY <3>3 DEF TalkInv, ReadBy
      <4>2. s # r
        BY <1>8, <4>1
      <4>3. /\ Listens(s)' /\ request'[s].use = d
            /\ connection'[d].sawCompletion =>
                 remembered'[s] = Append(request'[s].input, AnswerItem)
        BY <1>3, <1>5, <1>9, <3>1, <4>1, <4>2 DEF Told
      <4>4. QED
        BY <3>1, <3>3, <4>3 DEF ReadBy, Told
    <3>4. QED
      BY <3>2, <3>3 DEF Types, Connected, Owner
  <2>3. QED
    BY <2>1, <2>2
<1>12. ASSUME NEW d \in Requests PROVE Continuable(d)'
  <2>1. entry'[d].continuation \in {entry[d].continuation, NoContinuation}
    BY <1>3 DEF Types, Entered
  <2>2. CASE entry'[d].continuation = NoContinuation
    BY <2>2 DEF Continuable, NoContinuation
  <2>3. ASSUME NEW k, k = entry[d].continuation, entry'[d].continuation = k PROVE Continuable(d)'
    <3>1. CASE k.response = NoOne
      BY <2>3, <3>1 DEF Continuable
    <3>2. ASSUME NEW q \in Requests, q = k.response, q # NoOne PROVE Continuable(d)'
      <4>1. /\ pc[q] \in {"complete", "ended"} /\ Told(q, k.input)
            /\ \A e \in Requests : asked[e].by # q
        BY <2>3, <3>2 DEF TalkInv, Continuable
      <4>2. q # r
        BY <1>8, <4>1
      <4>3. /\ pc'[q] \in {"complete", "ended"} /\ remembered'[q] = Append(k.input, AnswerItem)
            /\ \A e \in Requests : asked'[e].by # q
        BY <1>3, <1>5, <1>7, <4>1, <4>2 DEF Told
      <4>4. QED
        BY <2>3, <3>2, <4>3 DEF Continuable, Told
    <3>3. k.response \in Owner
      BY <2>3 DEF Types, Entered, Continued
    <3>4. QED
      BY <3>1, <3>2, <3>3 DEF Owner
  <2>4. QED
    BY <2>1, <2>2, <2>3
<1>13. ASSUME NEW s \in Requests PROVE Settled(s)' /\ Completes(s)'
  <2>1. CASE s = r
    <3>1. Settled(r)'
      BY <1>5, <1>8 DEF Settled
    <3>2. Completes(r)'
      BY <1>3, <1>8 DEF Completes, TalkInv
    <3>3. QED
      BY <2>1, <3>1, <3>2
  <2>2. CASE s # r
    <3>1. Settled(s)'
      BY <1>3, <1>5, <1>9, <2>2 DEF TalkInv, Settled, Told
    <3>2. Completes(s)'
      BY <1>3, <1>5, <2>2 DEF TalkInv, Completes, AnsweredOrCut
    <3>3. QED
      BY <3>1, <3>2
  <2>3. QED
    BY <2>1, <2>2
(* No message is handled that would be told to somebody else.              *)
<1>14. connection[c].handling # "completing"
  <2>1. SUFFICES ASSUME connection[c].handling = "completing" PROVE FALSE
    OBVIOUS
  <2>2. connection[c].reader # NoOne
    BY <1>2, <2>1 DEF TalkInv, Handles
  <2>3. PICK s \in Requests : s = connection[c].reader
    BY <2>2 DEF Types, Connected, Owner
  <2>4. Listens(s) /\ request[s].use = c
    BY <2>2, <2>3 DEF TalkInv, ReadBy
  <2>5. s = r
    BY <1>1, <1>2, <2>4 DEF Users, OneRequestPerConnection, Listens
  <2>6. QED
    BY <1>8, <2>4, <2>5
<1>15. ASSUME NEW d \in Requests PROVE Handles(d)'
  <2>1. CASE d = c
    BY <1>6, <1>14, <2>1 DEF TalkInv, Handles
  <2>2. CASE d # c
    <3>1. connection'[d] = connection[d] /\ asked'[d] = asked[d]
      BY <1>6, <1>7, <2>2
    <3>2. ASSUME NEW s \in Requests, s = connection[d].reader, s # NoOne
          PROVE  request'[s] = request[s]
      <4>1. Listens(s)
        BY <3>2 DEF TalkInv, ReadBy
      <4>2. QED
        BY <1>5, <1>8, <4>1
    <3>3. connection[d].reader \in Owner
      BY DEF Types, Connected
    <3>4. QED
      BY <3>1, <3>2, <3>3 DEF TalkInv, Handles, Owner
  <2>3. QED
    BY <2>1, <2>2
<1>16. QED
  BY <1>7, <1>10, <1>11, <1>12, <1>13, <1>15 DEF TalkInv

(* A request that is complete was answered: nothing asks it any more, and  *)
(* what its connection continues is its input and the answer.              *)
LEMMA ReleaseKeepsTalk ==
  ASSUME IInv, TalkInv, NEW r \in Requests, AwaitCompletion(r), ~GiveUp(r)
  PROVE  TalkInv'
<1> USE DEF IInv
<1>1. PICK c \in Requests :
        /\ c = request[r].use
        /\ connection'[c].reader = NoOne /\ connection'[c].socket = connection[c].socket
        /\ connection[c].closed => connection'[c].closed
        /\ \A d \in Requests \ {c} : connection'[d] = connection[d] /\ entry'[d] = entry[d]
        /\ pc'[r] = "complete" /\ \A s \in Requests \ {r} : pc'[s] = pc[s]
        /\ request' = request
  BY ReleaseLeaves
<1>2. /\ asked' = asked /\ remembered' = remembered /\ outcome' = outcome
      /\ request[r].completion = "ok"
      /\ pc[r] = "awaiting"
  BY DEF AwaitCompletion, server, Types, Requested, Completions
<1>3. /\ Listens(r) /\ ~Unsent(r) /\ ~Listens(r)' /\ ~Unsent(r)' /\ pc[r] \in Using
      /\ pc'[r] \notin Using
      /\ \A s \in Requests \ {r} : (Listens(s)' <=> Listens(s)) /\ (Unsent(s)' <=> Unsent(s))
  BY <1>1, <1>2 DEF Listens, Unsent, Using, Early, Opening
<1>4. Told(r, request[r].input)
  BY <1>2, <1>3 DEF TalkInv, Settled
(* Nothing asks it any more.                                               *)
<1>5. \A d \in Requests : asked[d].by # r
  <2>1. SUFFICES ASSUME NEW d \in Requests, asked[d].by = r PROVE FALSE
    OBVIOUS
  <2>2. r # NoOne
    BY CodexAssumption DEF CodexAssumption
  <2>3. QED
    BY <1>2, <1>3, <2>1, <2>2 DEF TalkInv, AskedOf
<1>6. /\ entry'[c].continuation \in {entry[c].continuation, [input |-> request[r].input, response |-> r]}
      /\ connection'[c].handling = connection[c].handling
  <2>1. PICK k : /\ k \in {entry[c].continuation, [input |-> request[r].input, response |-> r]}
                 /\ Release(r, k)
    BY <1>1, SMTT(30), ZenonT(60) DEF AwaitCompletion
  <2>2. \/ entry' = [entry EXCEPT ![c].timer = FALSE, ![c].continuation = k]
        \/ entry' = [entry EXCEPT ![c].busy = FALSE, ![c].timer = TRUE, ![c].continuation = k]
    BY <1>1, <2>1 DEF Release
  <2>3. entry'[c].continuation = k
    BY <2>2 DEF Types, Entered
  <2>4. \/ connection' = [connection EXCEPT ![c].closed = TRUE, ![c].reader = NoOne]
        \/ connection' = [connection EXCEPT ![c].reader = NoOne]
    BY <1>1, <2>1 DEF Release, Closed
  <2>5. connection'[c].handling = connection[c].handling
    BY <2>4, SMTT(30), ZenonT(60) DEF Types, Connected
  <2>6. QED
    BY <2>1, <2>3, <2>5
<1>7. ASSUME NEW d \in Requests PROVE AskedOf(d)'
  <2>1. SUFFICES ASSUME NEW s \in Requests, s = asked[d].by, s # NoOne
                 PROVE  /\ connection'[d].socket = "open" /\ ~Unsent(s)'
                        /\ asked[d].context = request'[s].input
                        /\ pc'[s] \in Using => request'[s].use = d /\ request'[s].completion = "open"
                        /\ connection'[d].reader \in {NoOne, s}
    BY <1>2 DEF AskedOf, TalkInv, TalkTypes, Asks, Owner
  <2>2. /\ connection[d].socket = "open" /\ ~Unsent(s)
        /\ asked[d].context = request[s].input
        /\ pc[s] \in Using => request[s].use = d /\ request[s].completion = "open"
        /\ connection[d].reader \in {NoOne, s}
    BY <2>1 DEF AskedOf, TalkInv
  <2>3. s # r
    BY <1>5, <2>1
  <2>4. ~Unsent(s)' /\ pc'[s] = pc[s]
    BY <1>1, <1>3, <2>2, <2>3
  <2>5. connection'[d].socket = connection[d].socket
        /\ connection'[d].reader \in {connection[d].reader, NoOne}
    BY <1>1
  <2>6. QED
    BY <1>1, <2>2, <2>4, <2>5
<1>8. ASSUME NEW d \in Requests PROVE ReadBy(d)'
  <2>1. CASE d = c
    BY <1>1, <2>1 DEF ReadBy
  <2>2. CASE d # c
    <3>1. connection'[d] = connection[d]
      BY <1>1, <2>2
    <3>2. CASE connection[d].reader = NoOne
      BY <3>1, <3>2 DEF ReadBy
    <3>3. ASSUME NEW s \in Requests, s = connection[d].reader, s # NoOne PROVE ReadBy(d)'
      <4>1. /\ Listens(s) /\ request[s].use = d
            /\ connection[d].sawCompletion => Told(s, request[s].input)
        BY <3>3 DEF TalkInv, ReadBy
      <4>2. s # r
        BY <1>1, <2>2, <4>1
      <4>3. /\ Listens(s)' /\ request'[s].use = d
            /\ connection'[d].sawCompletion =>
                 remembered'[s] = Append(request'[s].input, AnswerItem)
        BY <1>1, <1>2, <1>3, <3>1, <4>1, <4>2 DEF Told
      <4>4. QED
        BY <3>1, <3>3, <4>3 DEF ReadBy, Told
    <3>4. QED
      BY <3>2, <3>3 DEF Types, Connected, Owner
  <2>3. QED
    BY <2>1, <2>2
<1>9. ASSUME NEW d \in Requests PROVE Continuable(d)'
  <2>1. ASSUME entry'[d].continuation = entry[d].continuation PROVE Continuable(d)'
    <3>1. ASSUME NEW s \in Requests, pc[s] \in {"complete", "ended"}
          PROVE  pc'[s] \in {"complete", "ended"}
      BY <1>1, <3>1
    <3>2. entry[d].continuation.response \in Owner
      BY DEF Types, Entered, Continued
    <3>3. QED
      BY <1>2, <2>1, <3>1, <3>2 DEF TalkInv, Continuable, Told, Owner
  <2>2. ASSUME entry'[d].continuation = [input |-> request[r].input, response |-> r]
        PROVE  Continuable(d)'
    <3>1. /\ entry'[d].continuation.response = r
          /\ entry'[d].continuation.input = request[r].input
      BY <2>2
    <3>2. pc'[r] \in {"complete", "ended"} /\ remembered'[r] = Append(request[r].input, AnswerItem)
      BY <1>1, <1>2, <1>4 DEF Told
    <3>3. QED
      BY <1>2, <1>5, <3>1, <3>2 DEF Continuable, Told
  <2>3. QED
    BY <1>1, <1>6, <2>1, <2>2
<1>10. ASSUME NEW s \in Requests PROVE Settled(s)' /\ Completes(s)'
  <2>1. CASE s = r
    <3>1. remembered[r] # <<>>
      <4>1. request[r].input \in Talks
        BY TalkLiterals DEF Types, Requested
      <4>2. QED
        BY <1>4, <4>1, TalkLiterals DEF Told
    <3>2. Settled(r)'
      BY <1>3 DEF Settled
    <3>3. Completes(r)'
      BY <1>1, <1>2, <3>1 DEF Completes, TalkInv, AnsweredOrCut
    <3>4. QED
      BY <2>1, <3>2, <3>3
  <2>2. CASE s # r
    <3>1. Settled(s)'
      BY <1>1, <1>2, <1>3, <2>2 DEF TalkInv, Settled, Told
    <3>2. Completes(s)'
      BY <1>1, <1>2, <2>2 DEF TalkInv, Completes, AnsweredOrCut
    <3>3. QED
      BY <3>1, <3>2
  <2>3. QED
    BY <2>1, <2>2
<1>11. TalkTypes'
  BY <1>2 DEF TalkInv, TalkTypes
(* A message that is still handled is one of a connection that is closed.  *)
<1>12. ASSUME NEW d \in Requests PROVE Handles(d)'
  <2>1. CASE d = c
    <3>1. connection[c].reader = r
      BY <1>1, <1>2 DEF Users, OneRequestPerConnection, Using
    <3>2. connection[c].handling = "completing" => connection[c].closed
      BY <1>2, <3>1 DEF TalkInv, Handles
    <3>3. QED
      BY <1>1, <1>2, <1>6, <2>1, <3>2 DEF TalkInv, Handles
  <2>2. CASE d # c
    BY <1>1, <1>2, <2>2 DEF TalkInv, Handles
  <2>3. QED
    BY <2>1, <2>2
<1>13. QED
  BY <1>7, <1>8, <1>9, <1>10, <1>11, <1>12 DEF TalkInv

(* The last event of a response: it is remembered.                         *)
Says(c) ==
  /\ asked[c].by # NoOne /\ connection[c].reader # NoOne
  /\ remembered' = [remembered EXCEPT ![asked[c].by] = Append(asked[c].context, AnswerItem)]

(* What the events of a connection change: of its reader, what it has got  *)
(* and whether it is settled; and the question, which is over with the     *)
(* last event.                                                             *)
Hears(c) ==
  /\ UNCHANGED <<pc, outcome, entry>>
  /\ \A s \in Requests :
       /\ request'[s].input = request[s].input /\ request'[s].use = request[s].use
       /\ request'[s].call = request[s].call
       /\ s # connection[c].reader => request'[s] = request[s]
       /\ request'[s].completion = "ok" /\ request[s].completion # "ok" =>
            connection[c].sawCompletion
  /\ \A d \in Requests : connection'[d].reader = connection[d].reader
  /\ \A d \in Requests \ {c} : connection'[d] = connection[d] /\ asked'[d] = asked[d]
  /\ connection'[c].sawCompletion => connection[c].sawCompletion \/ Says(c)
  /\ remembered' = remembered \/ Says(c)
  /\ asked' \in [Requests -> Asks]
  /\ \/ asked'[c].by = NoOne
     \/ /\ asked'[c].by = asked[c].by /\ asked'[c].context = asked[c].context
        /\ connection'[c].socket = connection[c].socket
        /\ \A s \in Requests : request'[s].completion = request[s].completion
  /\ Handles(c)'

(* What the reader is told when the connection handles its last message    *)
(* or is over.                                                             *)
LEMMA ReaderHears ==
  ASSUME IInv, TalkInv, NEW c \in Requests, SocketStep(c),
         NEW r \in Requests, r = connection[c].reader
  PROVE  /\ request'[r].completion = "ok" /\ request[r].completion # "ok" =>
              connection[c].sawCompletion
         /\ onMessage(c) \/ CloseEvents(c) \/ ServerCloses(c) =>
              request'[r].completion = request[r].completion
<1> USE DEF IInv
<1>0. r # NoOne
  BY CodexAssumption DEF CodexAssumption
<1>1. CASE onOpen(c) \/ ServerCloses(c)
  BY <1>1 DEF onOpen, ServerCloses
<1>2. CASE onMessage(c)
  <2>1. PICK e \in {"created", "done", "failed"} : request' = Delivered(c, e)
    BY <1>2 DEF onMessage
  <2>2. request'[r].completion = request[r].completion
    BY <2>1, DeliveredDoes
  <2>3. QED
    BY <2>2
<1>3. CASE CompleteRequest(c)
  <2>1. connection[c].sawCompletion /\ connection[c].handling = "completing"
    BY <1>0, <1>3 DEF CompleteRequest, TalkInv, Handles
  <2>2. ~onMessage(c) /\ ~CloseEvents(c)
    BY <2>1 DEF onMessage, CloseEvents
  <2>3. QED
    BY <1>1, <2>1, <2>2
<1>4. CASE CloseEvents(c)
  <2>1. request'[r].completion = request[r].completion
    BY <1>4, EventsClosedDoes DEF CloseEvents
  <2>2. QED
    BY <2>1
<1>5. CASE onFailure(c) \/ onClosed(c)
  <2>1. PICK how \in Completions :
          /\ request' = Completed(request, r, how)
          /\ how = "ok" => connection[c].sawCompletion
    BY <1>5, Literals DEF onFailure, onClosed
  <2>2. request'[r].completion = IF request[r].completion = "open" THEN how ELSE request[r].completion
    BY <2>1, CompletedDoes
  <2>3. QED
    BY <1>1, <1>2, <1>4, <2>1, <2>2
<1>6. QED
  BY <1>1, <1>2, <1>3, <1>4, <1>5 DEF SocketStep

(* What is handled on the connection afterwards.                           *)
LEMMA SocketHandles ==
  ASSUME IInv, TalkInv, NEW c \in Requests, asked' \in [Requests -> Asks],
         \/ onMessage(c) \/ CompleteRequest(c) \/ CloseEvents(c)
         \/ onClosed(c) \/ onFailure(c) \/ ServerCloses(c)
  PROVE  Handles(c)'
<1> USE DEF IInv
<1>0. /\ connection[c].handling # "no" => connection[c].socket # "none"
      /\ connection[c].handling = "completing" =>
           /\ asked[c].by = NoOne
           /\ \/ connection[c].closed
              \/ /\ connection[c].reader # NoOne
                 /\ request[connection[c].reader].completion = "open"
           /\ connection[c].reader # NoOne => connection[c].sawCompletion
  BY DEF TalkInv, Handles
<1>1. CASE onMessage(c)
  <2>1. PICK r \in Requests : r = connection[c].reader /\ r # NoOne
    BY <1>1 DEF onMessage, Types, Connected, Owner
  <2>2. /\ connection[c].socket = "open" /\ asked[c].by = r /\ Listens(r)
        /\ request[r].completion = "open"
    BY <1>1, <2>1 DEF onMessage, TalkInv, AskedOf, ReadBy, Listens
  <2>3. request'[r].completion = "open"
    BY <1>1, <2>1, <2>2, ReaderHears DEF SocketStep
  <2>4. /\ connection[c].handling = "no"
        /\ \/ connection' = connection
           \/ /\ connection' = [connection EXCEPT ![c].sawCompletion = TRUE,
                                                  ![c].handling = "completing"]
              /\ asked' = [asked EXCEPT ![c] = NotAsked]
    BY <1>1 DEF onMessage
  <2>5. CASE connection' = connection
    BY <2>4, <2>5 DEF Handles
  <2>6. CASE /\ connection' = [connection EXCEPT ![c].sawCompletion = TRUE,
                                                 ![c].handling = "completing"]
             /\ asked' = [asked EXCEPT ![c] = NotAsked]
    <3>1. /\ connection'[c].sawCompletion /\ connection'[c].reader = r
          /\ connection'[c].socket = "open"
      BY <2>1, <2>2, <2>6 DEF Types, Connected
    <3>2. asked'[c].by = NoOne
      BY <2>6 DEF TalkInv, TalkTypes, NotAsked
    <3>3. QED
      BY <2>1, <2>3, <3>1, <3>2 DEF Handles
  <2>7. QED
    BY <2>4, <2>5, <2>6
<1>2. CASE CompleteRequest(c)
  <2>1. connection'[c].handling = "closing" /\ connection'[c].socket = connection[c].socket
    BY <1>2 DEF CompleteRequest, Types, Connected
  <2>2. connection[c].handling # "no"
    BY <1>2 DEF CompleteRequest
  <2>3. QED
    BY <1>0, <2>1, <2>2 DEF Handles
<1>3. CASE CloseEvents(c)
  <2>1. connection'[c].handling = "no"
    BY <1>3 DEF CloseEvents, Types, Connected
  <2>2. QED
    BY <2>1 DEF Handles
<1>4. CASE onClosed(c)
  <2>1. connection'[c].handling = "no"
    BY <1>4 DEF onClosed, Types, Connected
  <2>2. QED
    BY <2>1 DEF Handles
<1>5. CASE onFailure(c)
  <2>1. /\ connection'[c].closed /\ connection'[c].socket = "gone"
        /\ connection'[c].handling = connection[c].handling
        /\ connection'[c].sawCompletion = connection[c].sawCompletion
        /\ connection'[c].reader = connection[c].reader
    BY <1>5, SMTT(30), ZenonT(60) DEF onFailure, Types, Connected
  <2>2. asked'[c].by = NoOne
    BY <1>5 DEF onFailure, TalkInv, TalkTypes, NotAsked
  <2>3. QED
    BY <1>0, <2>1, <2>2 DEF Handles
<1>6. CASE ServerCloses(c)
  <2>1. /\ connection'[c].closed = connection[c].closed /\ connection'[c].socket = "deaf"
        /\ connection'[c].handling = connection[c].handling
        /\ connection'[c].sawCompletion = connection[c].sawCompletion
        /\ connection'[c].reader = connection[c].reader
    BY <1>6, SMTT(30), ZenonT(60) DEF ServerCloses, Types, Connected
  <2>2. asked'[c].by = NoOne /\ request' = request
    BY <1>6 DEF ServerCloses, TalkInv, TalkTypes, NotAsked
  <2>3. QED
    BY <1>0, <2>1, <2>2 DEF Handles
<1>7. QED
  BY <1>1, <1>2, <1>3, <1>4, <1>5, <1>6

LEMMA SocketHears ==
  ASSUME IInv, TalkInv, NEW c \in Requests,
         \/ onMessage(c) \/ CompleteRequest(c) \/ CloseEvents(c)
         \/ onClosed(c) \/ onFailure(c) \/ ServerCloses(c)
  PROVE  Hears(c)
<1> USE DEF IInv
<1>0. SocketStep(c) /\ TalkTypes
  BY DEF SocketStep, TalkInv
<1>1. /\ UNCHANGED <<pc, outcome, entry>>
      /\ \A d \in Requests : connection'[d].reader = connection[d].reader
      /\ \A d \in Requests \ {c} : connection'[d] = connection[d]
  BY <1>0, SocketDoes
<1>2. \/ asked' = [asked EXCEPT ![c] = NotAsked]
      \/ asked' = [asked EXCEPT ![c].created = TRUE] /\ onMessage(c)
      \/ asked' = asked /\ CloseEvents(c)
      \/ asked' = asked /\ CompleteRequest(c)
  BY DEF onMessage, CompleteRequest, CloseEvents, onClosed, onFailure, ServerCloses, server
<1>3. remembered' = remembered \/ Says(c)
  BY DEF onMessage, CompleteRequest, CloseEvents, onClosed, onFailure, ServerCloses, Says, server
<1>4. connection'[c].sawCompletion => connection[c].sawCompletion \/ Says(c)
  <2>1. CASE onMessage(c)
    BY <2>1 DEF onMessage, Says
  <2>2. CASE onClosed(c) \/ onFailure(c) \/ CompleteRequest(c) \/ CloseEvents(c)
    BY <2>2, SMTT(30), ZenonT(60) DEF onClosed, onFailure, CompleteRequest, CloseEvents, Types, Connected
  <2>3. CASE ServerCloses(c)
    BY <2>3, SMTT(30), ZenonT(60) DEF ServerCloses, Types, Connected
  <2>4. QED
    BY <2>1, <2>2, <2>3
(* What the reader gets, and how it is completed.                          *)
<1>5. request' = request \/ \E r \in Requests : r = connection[c].reader /\ Tells(request', r)
  BY <1>0, SocketTells
<1>6. ASSUME NEW s \in Requests
      PROVE  /\ request'[s].input = request[s].input /\ request'[s].use = request[s].use
             /\ request'[s].call = request[s].call
             /\ s # connection[c].reader => request'[s] = request[s]
             /\ request'[s].completion = "ok" /\ request[s].completion # "ok" =>
                  connection[c].sawCompletion
  <2>1. CASE request' = request
    BY <2>1
  <2>2. ASSUME NEW r \in Requests, r = connection[c].reader, Tells(request', r)
        PROVE  /\ request'[s].input = request[s].input /\ request'[s].use = request[s].use
               /\ request'[s].call = request[s].call
               /\ s # connection[c].reader => request'[s] = request[s]
    BY <2>2 DEF Tells
  <2>3. s = connection[c].reader =>
          (request'[s].completion = "ok" /\ request[s].completion # "ok" =>
             connection[c].sawCompletion)
    BY <1>0, ReaderHears
  <2>4. /\ request'[s].input = request[s].input /\ request'[s].use = request[s].use
        /\ request'[s].call = request[s].call
        /\ s # connection[c].reader => request'[s] = request[s]
    BY <1>5, <2>1, <2>2
  <2>5. QED
    BY <2>3, <2>4
<1>7. \A d \in Requests \ {c} : asked'[d] = asked[d]
  BY <1>0, <1>2 DEF TalkTypes
<1>8. asked' \in [Requests -> Asks]
  BY <1>0, <1>2, TalkLiterals, SMTT(30), ZenonT(60) DEF TalkTypes, Asks
<1>9. \/ asked'[c].by = NoOne
      \/ /\ asked'[c].by = asked[c].by /\ asked'[c].context = asked[c].context
         /\ connection'[c].socket = connection[c].socket
         /\ \A s \in Requests : request'[s].completion = request[s].completion
  <2>1. CASE asked' = [asked EXCEPT ![c] = NotAsked]
    BY <1>0, <2>1 DEF TalkTypes, NotAsked
  <2>2. CASE asked' = asked /\ CompleteRequest(c)
    BY <2>2 DEF CompleteRequest, TalkInv, Handles
  <2>3. ASSUME onMessage(c) \/ CloseEvents(c)
        PROVE  /\ connection'[c].socket = connection[c].socket
               /\ \A s \in Requests : request'[s].completion = request[s].completion
    <3>1. connection'[c].socket = connection[c].socket
      BY <2>3, HandlingDoes
    <3>2. ASSUME NEW s \in Requests PROVE request'[s].completion = request[s].completion
      <4>1. CASE s = connection[c].reader
        BY <1>0, <2>3, <4>1, ReaderHears
      <4>2. CASE s # connection[c].reader
        BY <1>6, <4>2
      <4>3. QED
        BY <4>1, <4>2
    <3>3. QED
      BY <3>1, <3>2
  <2>4. asked' = [asked EXCEPT ![c].created = TRUE] =>
          asked'[c].by = asked[c].by /\ asked'[c].context = asked[c].context
    BY <1>0 DEF TalkTypes, Asks
  <2>5. QED
    BY <1>2, <2>1, <2>2, <2>3, <2>4
<1>10. Handles(c)'
  BY <1>8, SocketHandles
<1>11. QED
  BY <1>1, <1>3, <1>4, <1>6, <1>7, <1>8, <1>9, <1>10 DEF Hears

(* The events of a connection keep what was said: they go to the request   *)
(* that asked, and the answer is remembered before it is told.             *)
LEMMA SocketKeepsTalk ==
  ASSUME IInv, TalkInv, NEW c \in Requests, Hears(c)
  PROVE  TalkInv'
<1> USE DEF IInv
<1>1. /\ UNCHANGED <<pc, outcome, entry>>
      /\ \A s \in Requests :
           /\ request'[s].input = request[s].input /\ request'[s].use = request[s].use
           /\ request'[s].call = request[s].call
           /\ s # connection[c].reader => request'[s] = request[s]
           /\ request'[s].completion = "ok" /\ request[s].completion # "ok" =>
                connection[c].sawCompletion
      /\ \A d \in Requests : connection'[d].reader = connection[d].reader
      /\ \A d \in Requests \ {c} : connection'[d] = connection[d] /\ asked'[d] = asked[d]
      /\ connection'[c].sawCompletion => connection[c].sawCompletion \/ Says(c)
  BY DEF Hears
<1>2. \A s \in Requests : (Listens(s)' <=> Listens(s)) /\ (Unsent(s)' <=> Unsent(s))
  BY <1>1 DEF Listens, Unsent
(* The reader of a connection is the one who asked over it.                *)
<1>3. ASSUME NEW d \in Requests, asked[d].by # NoOne, connection[d].reader # NoOne
      PROVE  /\ asked[d].by \in Requests /\ connection[d].reader = asked[d].by
             /\ asked[d].context = request[asked[d].by].input
             /\ Listens(asked[d].by) /\ request[asked[d].by].use = d
  <2>1. connection[d].reader = asked[d].by /\ asked[d].context = request[asked[d].by].input
    BY <1>3 DEF TalkInv, AskedOf
  <2>2. Listens(connection[d].reader) /\ request[connection[d].reader].use = d
    BY <1>3 DEF TalkInv, ReadBy
  <2>3. connection[d].reader \in Requests
    BY <1>3, SMTT(30), ZenonT(60) DEF Types, Connected, Owner
  <2>4. QED
    BY <2>1, <2>2, <2>3
(* An answer is remembered by the request that reads, with its input.      *)
<1>4. ASSUME Says(c)
      PROVE  /\ asked[c].by \in Requests /\ asked[c].by = connection[c].reader
             /\ remembered' \in [Requests -> Talks]
             /\ remembered'[asked[c].by] = Append(request[asked[c].by].input, AnswerItem)
             /\ remembered'[asked[c].by] # <<>>
             /\ \A s \in Requests \ {asked[c].by} : remembered'[s] = remembered[s]
  <2>1. PICK a \in Requests : /\ a = asked[c].by /\ a = connection[c].reader
                              /\ asked[c].context = request[a].input
    BY <1>3, <1>4 DEF Says
  <2>2. asked[c].context \in Talks
    BY DEF TalkInv, TalkTypes, Asks
  <2>3. PICK t \in Talks : t = Append(request[a].input, AnswerItem) /\ t # <<>>
    BY <2>1, <2>2, TalkLiterals
  <2>4. remembered' = [remembered EXCEPT ![a] = t]
    BY <1>4, <2>1, <2>3 DEF Says
  <2>5. /\ remembered' \in [Requests -> Talks] /\ remembered'[a] = t
        /\ \A s \in Requests \ {a} : remembered'[s] = remembered[s]
    BY <2>4 DEF TalkInv, TalkTypes
  <2>6. QED
    BY <2>1, <2>3, <2>5
<1>5. TalkTypes'
  <2>1. remembered' \in [Requests -> Talks]
    BY <1>4 DEF Hears, TalkInv, TalkTypes
  <2>2. asked' \in [Requests -> Asks]
    BY DEF Hears
  <2>3. QED
    BY <2>1, <2>2 DEF TalkTypes
<1>6. ASSUME NEW d \in Requests PROVE AskedOf(d)'
  <2>1. CASE asked'[d].by = NoOne
    BY <2>1 DEF AskedOf
  <2>2. ASSUME asked'[d].by # NoOne PROVE AskedOf(d)'
    <3>1. /\ asked'[d].by = asked[d].by /\ asked'[d].context = asked[d].context
          /\ connection'[d].socket = connection[d].socket
          /\ d = c => \A s \in Requests : request'[s].completion = request[s].completion
      BY <1>1, <2>2 DEF Hears
    <3>2. PICK s \in Requests : s = asked[d].by /\ s # NoOne
      BY <2>2, <3>1 DEF TalkInv, TalkTypes, Asks, Owner
    <3>3. /\ connection[d].socket = "open" /\ ~Unsent(s)
          /\ asked[d].context = request[s].input
          /\ pc[s] \in Using => request[s].use = d /\ request[s].completion = "open"
          /\ connection[d].reader \in {NoOne, s}
      BY <3>2 DEF AskedOf, TalkInv
    <3>4. ASSUME pc[s] \in Using, d # c PROVE request'[s].completion = request[s].completion
      <4>1. s # connection[c].reader
        <5>1. s = connection[c].reader => request[s].use = c
          BY <3>2 DEF TalkInv, ReadBy
        <5>2. QED
          BY <3>3, <3>4, <5>1
      <4>2. QED
        BY <1>1, <4>1
    <3>5. /\ connection'[d].socket = "open" /\ ~Unsent(s)'
          /\ asked'[d].context = request'[s].input
          /\ pc'[s] \in Using => request'[s].use = d /\ request'[s].completion = "open"
          /\ connection'[d].reader \in {NoOne, s}
      BY <1>1, <1>2, <3>1, <3>3, <3>4
    <3>6. QED
      BY <3>1, <3>2, <3>5 DEF AskedOf
  <2>3. QED
    BY <2>1, <2>2
<1>7. ASSUME NEW s \in Requests, NEW input, Told(s, input), input = request[s].input
      PROVE  remembered'[s] = Append(input, AnswerItem)
  BY <1>4, <1>7 DEF Hears, Told
<1>8. ASSUME NEW d \in Requests PROVE ReadBy(d)'
  <2>1. CASE connection[d].reader = NoOne
    BY <1>1, <2>1 DEF ReadBy
  <2>2. ASSUME NEW s \in Requests, s = connection[d].reader, s # NoOne PROVE ReadBy(d)'
    <3>1. /\ Listens(s) /\ request[s].use = d
          /\ connection[d].sawCompletion => Told(s, request[s].input)
      BY <2>2 DEF TalkInv, ReadBy
    <3>2. connection'[d].sawCompletion => remembered'[s] = Append(request'[s].input, AnswerItem)
      <4>1. CASE connection[d].sawCompletion
        BY <1>1, <1>7, <3>1, <4>1
      <4>2. CASE ~connection[d].sawCompletion /\ connection'[d].sawCompletion
        <5>1. d = c /\ Says(c)
          BY <1>1, <4>2
        <5>2. s = connection[c].reader
          BY <2>2, <5>1
        <5>3. s = asked[c].by
          BY <1>4, <5>1, <5>2, Zenon
        <5>4. remembered'[s] = Append(request[s].input, AnswerItem)
          BY <1>4, <5>1, <5>3, Zenon
        <5>5. s \in Requests
          BY <1>4, <5>1, <5>3, Zenon
        <5>6. request'[s].input = request[s].input
          BY <1>1, <5>5, Zenon
        <5>7. QED
          BY <5>4, <5>6, Zenon
      <4>3. QED
        BY <4>1, <4>2
    <3>3. QED
      BY <1>1, <1>2, <2>2, <3>1, <3>2 DEF ReadBy, Told
  <2>3. QED
    BY <2>1, <2>2 DEF Types, Connected, Owner
<1>9. ASSUME NEW d \in Requests PROVE Continuable(d)'
  <2>1. PICK k \in Continued : k = entry[d].continuation /\ entry'[d].continuation = k
    BY <1>1 DEF Types, Entered
  <2>2. CASE k.response = NoOne
    BY <2>1, <2>2 DEF Continuable
  <2>3. ASSUME NEW q \in Requests, q = k.response, q # NoOne PROVE Continuable(d)'
    <3>1. /\ pc[q] \in {"complete", "ended"} /\ Told(q, k.input)
          /\ \A e \in Requests : asked[e].by # q
      BY <2>1, <2>3 DEF TalkInv, Continuable
    <3>2. remembered'[q] = remembered[q]
      <4>1. CASE Says(c)
        BY <1>4, <3>1, <4>1
      <4>2. CASE ~Says(c)
        BY <4>2 DEF Hears
      <4>3. QED
        BY <4>1, <4>2
    <3>3. \A e \in Requests : asked'[e].by # q
      <4>1. asked'[c].by \in {NoOne, asked[c].by}
        BY DEF Hears
      <4>2. QED
        BY <1>1, <2>3, <3>1, <4>1
    <3>4. QED
      BY <1>1, <2>1, <2>3, <3>1, <3>2, <3>3 DEF Continuable, Told
  <2>4. QED
    BY <2>2, <2>3 DEF Continued, Owner
<1>10. ASSUME NEW s \in Requests PROVE Settled(s)'
  <2>1. Unsent(s)' => /\ request'[s].completion = "open"
                      /\ request'[s].channel = <<>> /\ ~request'[s].closed
    <3>1. ASSUME Unsent(s) PROVE s # connection[c].reader
      <4>1. s = connection[c].reader => Listens(s)
        BY CodexAssumption DEF TalkInv, ReadBy, CodexAssumption
      <4>2. QED
        BY <3>1, <4>1, Apart
    <3>2. QED
      BY <1>1, <1>2, <3>1 DEF TalkInv, Settled
  <2>2. ASSUME Listens(s), request'[s].completion = "ok"
        PROVE  remembered'[s] = Append(request'[s].input, AnswerItem)
    <3>1. CASE request[s].completion = "ok"
      <4>1. Told(s, request[s].input)
        BY <2>2, <3>1 DEF TalkInv, Settled
      <4>2. QED
        BY <1>1, <1>7, <4>1
    <3>2. CASE request[s].completion # "ok"
      <4>1. s = connection[c].reader /\ connection[c].sawCompletion
        BY <1>1, <2>2, <3>2
      <4>2. Told(s, request[s].input)
        BY <4>1, CodexAssumption DEF TalkInv, ReadBy, CodexAssumption
      <4>3. QED
        BY <1>1, <1>7, <4>2
    <3>3. QED
      BY <3>1, <3>2
  <2>3. QED
    BY <1>2, <2>1, <2>2 DEF Settled, Told
<1>11. ASSUME NEW s \in Requests PROVE Completes(s)'
  <2>1. remembered[s] # <<>> => remembered'[s] # <<>>
    <3>1. CASE Says(c)
      BY <1>4, <3>1
    <3>2. CASE ~Says(c)
      BY <3>2 DEF Hears
    <3>3. QED
      BY <3>1, <3>2
  <2>2. QED
    BY <1>1, <2>1 DEF TalkInv, Completes, AnsweredOrCut
<1>12. ASSUME NEW d \in Requests PROVE Handles(d)'
  <2>1. CASE d = c
    BY <2>1 DEF Hears
  <2>2. CASE d # c
    <3>1. connection'[d] = connection[d] /\ asked'[d] = asked[d]
      BY <1>1, <2>2
    <3>2. ASSUME NEW s \in Requests, s = connection[d].reader, s # NoOne
          PROVE  request'[s] = request[s]
      <4>1. request[s].use = d
        BY <3>2 DEF TalkInv, ReadBy
      <4>2. s = connection[c].reader => request[s].use = c
        BY <3>2 DEF TalkInv, ReadBy
      <4>3. QED
        BY <1>1, <2>2, <4>1, <4>2
    <3>3. connection[d].reader \in Owner
      BY DEF Types, Connected
    <3>4. QED
      BY <3>1, <3>2, <3>3 DEF TalkInv, Handles, Owner
  <2>3. QED
    BY <2>1, <2>2
<1>13. QED
  BY <1>5, <1>6, <1>8, <1>9, <1>10, <1>11, <1>12 DEF TalkInv

(* Every step keeps what was said.                                         *)
LEMMA TalkStep ==
  ASSUME IInv, TalkInv, [Next]_vars
  PROVE  TalkInv'
<1> USE DEF TalkInv
<1>1. ASSUME NEW r \in Requests, Wires, Quiet(r), asked' = asked, remembered' = remembered
      PROVE  TalkInv'
  BY <1>1, SilenceKeepsTypes, QuietKeepsTalk
<1> HIDE DEF TalkInv
<1>2. ASSUME NEW r \in Requests,
             \/ Begin(r) \/ Acquire(r) \/ Connect(r) \/ AddListener(r)
             \/ RecheckFlag(r) \/ AwaitOpen(r) \/ Insert(r)
      PROVE  TalkInv'
  BY <1>1, <1>2, OpeningIsQuiet
<1>3. ASSUME NEW r \in Requests, Finish(r) PROVE TalkInv'
  BY <1>1, <1>3, FinishIsQuiet
<1>4. ASSUME NEW r \in Requests, Send(r) PROVE TalkInv'
  <2>1. CASE connection[request[r].use].closed
    <3>1. GiveUp(r)
      BY <1>4, <2>1 DEF Send
    <3>2. QED
      BY <1>1, <1>4, <2>1, <3>1, GiveUpIsQuiet
  <2>2. CASE ~connection[request[r].use].closed
    BY <1>4, <2>2, SendKeepsTalk
  <2>3. QED
    BY <2>1, <2>2
<1>5. ASSUME NEW r \in Requests, CheckAborted(r) \/ Receive(r) PROVE TalkInv'
  <2>1. CASE GiveUp(r)
    BY <1>1, <1>5, <2>1, GiveUpIsQuiet
  <2>2. CASE ~GiveUp(r)
    BY <1>1, <1>5, <2>2, StayIsQuiet
  <2>3. QED
    BY <2>1, <2>2
<1>6. ASSUME NEW r \in Requests, AwaitCompletion(r) PROVE TalkInv'
  <2>1. CASE GiveUp(r)
    BY <1>1, <1>6, <2>1, GiveUpIsQuiet
  <2>2. CASE ~GiveUp(r)
    BY <1>6, <2>2, ReleaseKeepsTalk
  <2>3. QED
    BY <2>1, <2>2
<1>7. ASSUME NEW r \in Requests, Attempt(r) \/ SetActiveCall(r) \/ Execute(r) \/ Read(r)
      PROVE  TalkInv'
  <2>1. TalkTypes
    BY DEF TalkInv
  <2>2. QED
    BY <1>7, <2>1, CallingIsQuiet, QuietKeepsTalk
<1>8. ASSUME NEW r \in Requests, Abort(r) \/ SnapshotListeners(r) \/ CallListeners(r)
      PROVE  TalkInv'
  BY <1>1, <1>8, SignalIsQuiet
<1>9. ASSUME NEW r \in Requests, TimerFires(r) \/ TimerTask(r) \/ onOpen(r) PROVE TalkInv'
  BY <1>1, <1>9, TimerIsQuiet
<1>10. ASSUME NEW r \in Requests,
              \/ onMessage(r) \/ CompleteRequest(r) \/ CloseEvents(r)
              \/ onClosed(r) \/ onFailure(r) \/ ServerCloses(r)
       PROVE  TalkInv'
  <2>1. Hears(r)
    BY <1>10, SocketHears
  <2>2. QED
    BY <2>1, SocketKeepsTalk
<1>11. CASE UNCHANGED vars
  <2>1. /\ pc' = pc /\ request' = request /\ outcome' = outcome
        /\ connection' = connection /\ entry' = entry
        /\ asked' = asked /\ remembered' = remembered
    BY <1>11 DEF vars, server
  <2>2. TalkTypes'
    BY <2>1, Zenon DEF TalkInv, TalkTypes
  <2>3. ASSUME NEW c \in Requests PROVE AskedOf(c)' /\ Handles(c)'
    BY <2>1, Zenon DEF TalkInv, AskedOf, Handles, Unsent
  <2>4. ASSUME NEW c \in Requests PROVE ReadBy(c)'
    BY <2>1, Zenon DEF TalkInv, ReadBy, Listens, Told
  <2>5. ASSUME NEW c \in Requests PROVE Continuable(c)'
    BY <2>1, Zenon DEF TalkInv, Continuable, Told
  <2>6. ASSUME NEW r \in Requests PROVE Settled(r)' /\ Completes(r)'
    BY <2>1, Zenon DEF TalkInv, Settled, Completes, AnsweredOrCut, Listens, Unsent, Told
  <2>7. QED
    BY <2>2, <2>3, <2>4, <2>5, <2>6, Zenon DEF TalkInv
<1>12. QED
  BY <1>2, <1>3, <1>4, <1>5, <1>6, <1>7, <1>8, <1>9, <1>10, <1>11
     DEF Next, Advance, Network, Timer, SocketStep

(* Before the first request nothing was said.                              *)
LEMMA TalkStarts ==
  ASSUME Init
  PROVE  TalkInv
<1>1. PICK transport \in Transports :
        request = [r \in Requests |-> NewRequest(transport[r])]
  BY DEF Init
<1>2. \A r \in Requests : /\ request[r].completion = "open"
                          /\ request[r].channel = <<>> /\ ~request[r].closed
  BY <1>1 DEF NewRequest
<1>3. \A r \in Requests : pc[r] = "new" /\ outcome[r] = "none" /\ ~Listens(r)
  BY DEF Init, Listens, Using
<1>4. TalkTypes
  BY TalkLiterals DEF Init, TalkTypes
<1>5. \A c \in Requests : /\ asked[c].by = NoOne /\ connection[c].reader = NoOne
                          /\ connection[c].handling = "no"
                          /\ entry[c].continuation.response = NoOne
  BY DEF Init, NotAsked, NoContinuation
<1>6. QED
  BY <1>2, <1>3, <1>4, <1>5
     DEF TalkInv, AskedOf, ReadBy, Continuable, Handles, Settled, Completes

(* What was asked, read and remembered agrees in every reachable state.    *)
THEOREM TalkInvariant == Spec => [](IInv /\ TalkInv)
<1>1. Init => IInv /\ TalkInv
  BY InitHolds, TalkStarts
<1>2. IInv /\ TalkInv /\ [Next]_vars => (IInv /\ TalkInv)'
  BY TypesStep, UsersStep, SocketsStep, WatchedStep, CalledStep, OutcomesStep,
     ReachedStep, OpensStep, AnsweredStep, TalkStep DEF IInv
<1>3. QED
  BY <1>1, <1>2, PTL DEF Spec

(* getCachedCodexInputDelta and the previous response make up the whole    *)
(* input: the server never answers another conversation than the caller's, *)
(* whatever was given up, closed or cached in between.                     *)
THEOREM ServerSeesTheInput == Spec => []DeltaIsFaithful
<1>1. TalkInv => DeltaIsFaithful
  <2> SUFFICES ASSUME TalkInv, NEW c \in Requests, asked[c].by # NoOne
               PROVE  asked[c].context = request[asked[c].by].input
    BY DEF DeltaIsFaithful
  <2>1. QED
    BY DEF TalkInv, AskedOf
<1>2. QED
  BY <1>1, TalkInvariant, PTL

-----------------------------------------------------------------------------
(* What is waited for                                                      *)

(* A connection that its own request has not used yet handles no message,  *)
(* and at the end of one its request was told.                             *)
Fresh(c) ==
  /\ Unsent(c) /\ request[c].use = c => connection[c].handling = "no"
  /\ Listens(c) /\ request[c].use = c /\ connection[c].handling = "closing" =>
       request[c].completion # "open"

(* The last event was sent to a request, or none will be any more.         *)
Over(r) ==
  \/ pc[r] = "awaiting" \/ request[r].closed
  \/ \E i \in 1..Len(request[r].channel) : request[r].channel[i] = "done"

(* Then its completion follows, unless its events were closed early.       *)
Concludes(r) ==
  Listens(r) /\ request[r].completion = "open" /\ Over(r) =>
    connection[request[r].use].handling = "completing" \/ ClosedEarly(r)

(* The request knows its response, or will from the events it has.         *)
Got(r) ==
  \/ request[r].responseId
  \/ \E i \in 1..Len(request[r].channel) : request[r].channel[i] # "failed"

(* It knows it, or its events were closed before any came; and it knows it *)
(* unless it is one that DoneMeansAnswered excepts.                        *)
Drained(r) == request[r].responseId \/ (request[r].channel = <<>> /\ request[r].closed)
Knows(r)   ==
  request[r].responseId \/ request[r].call = "cut" \/ request[r].use \notin {r, NoOne}

(* A request that is done on the connection it opened has got its answer.  *)
Gets(r) ==
  LET c == connection[r]
  IN  /\ c.reader = r /\ c.sawCompletion => Got(r)
      /\ Listens(r) /\ request[r].use = r /\ request[r].completion = "ok" => Got(r)
      /\ pc[r] = "awaiting" => Drained(r)
      /\ pc[r] = "complete" => Knows(r)

WaitInv ==
  \A r \in Requests : Fresh(r) /\ Concludes(r) /\ Gets(r)

(* What a quiet step of a request leaves of what it has got.               *)
ReadsOn(r) ==
  /\ Unsent(r)' => request'[r].use = request[r].use \/ pc[r] \in Early
  /\ Listens(r)' => /\ request'[r].closed = request[r].closed
                    /\ Over(r)' => Over(r)
                    /\ Got(r) => Got(r)'
  /\ pc'[r] = "awaiting" => Drained(r)' \/ (pc[r] = "awaiting" /\ (Drained(r) => Drained(r)'))
  /\ pc'[r] = "complete" => Knows(r)' \/ (pc[r] = "complete" /\ (Knows(r) => Knows(r)'))

LEMMA QuietKeepsWaits ==
  ASSUME IInv, TalkInv, WaitInv, TalkInv', NEW r \in Requests, Wires, Quiet(r), ReadsOn(r)
  PROVE  WaitInv'
<1> SUFFICES ASSUME NEW s \in Requests PROVE Fresh(s)' /\ Concludes(s)' /\ Gets(s)'
  BY DEF WaitInv
<1>1. Fresh(s) /\ Concludes(s) /\ Gets(s)
  BY DEF WaitInv
<1>2. \A c \in Requests : /\ connection'[c].handling = connection[c].handling
                          /\ connection'[c].sawCompletion = connection[c].sawCompletion
                          /\ connection'[c].reader \in {connection[c].reader, NoOne}
  BY SMTT(30), ZenonT(60) DEF Wires
<1>3. s # r => pc'[s] = pc[s] /\ request'[s] = request[s]
  BY DEF Quiet
<1>4. Listens(s)' => /\ Listens(s) /\ request'[s].use = request[s].use
                     /\ request'[s].completion = request[s].completion
                     /\ request'[s].closed = request[s].closed
                     /\ Over(s)' => Over(s)
                     /\ Got(s) => Got(s)'
  <2>1. s = r => (Listens(s)' => /\ request'[s].closed = request[s].closed
                                 /\ Over(s)' => Over(s)
                                 /\ Got(s) => Got(s)')
    BY DEF ReadsOn
  <2>2. s # r => /\ request'[s].closed = request[s].closed
                 /\ Over(s)' => Over(s)
                 /\ Got(s) => Got(s)'
    BY <1>3 DEF Over, Got
  <2>3. QED
    BY <2>1, <2>2, QuietListens
<1>5. ASSUME Unsent(s)', request'[s].use = s PROVE connection'[s].handling = "no"
  <2>1. Unsent(s)
    BY <1>3, <1>5 DEF Quiet, Unsent
  <2>2. CASE request[s].use = s
    BY <1>1, <1>2, <2>1, <2>2 DEF Fresh
  <2>3. CASE request[s].use # s
    <3>1. s = r /\ pc[r] \in Early
      BY <1>3, <1>5, <2>3 DEF ReadsOn
    <3>2. connection[s].socket = "none"
      BY <3>1 DEF IInv, Sockets
    <3>3. connection[s].handling = "no"
      BY <3>2 DEF TalkInv, Handles
    <3>4. QED
      BY <1>2, <3>3
  <2>4. QED
    BY <2>2, <2>3
<1>6. Fresh(s)'
  <2>1. ASSUME Listens(s)', request'[s].use = s, connection'[s].handling = "closing"
        PROVE  request'[s].completion # "open"
    BY <1>1, <1>2, <1>4, <2>1 DEF Fresh
  <2>2. QED
    BY <1>5, <2>1 DEF Fresh
<1>7. Concludes(s)'
  <2>1. ASSUME Listens(s)', request'[s].completion = "open", Over(s)'
        PROVE  \/ connection'[request'[s].use].handling = "completing"
               \/ request'[s].closed /\ request'[s].use # s
    <3>1. Listens(s) /\ request[s].completion = "open" /\ Over(s)
      BY <1>4, <2>1
    <3>2. connection[request[s].use].handling = "completing" \/ ClosedEarly(s)
      BY <1>1, <3>1 DEF Concludes
    <3>3. request[s].use \in Requests
      BY <3>1 DEF IInv, Users, Uses, Listens
    <3>4. QED
      BY <1>2, <1>4, <2>1, <3>2, <3>3 DEF ClosedEarly
  <2>2. QED
    BY <2>1 DEF Concludes, ClosedEarly
<1>8. Gets(s)'
  <2>1. ASSUME connection'[s].reader = s, connection'[s].sawCompletion PROVE Got(s)'
    <3>1. s # NoOne
      BY CodexAssumption DEF CodexAssumption
    <3>2. Listens(s)'
      <4>1. ReadBy(s)'
        BY DEF TalkInv
      <4>2. QED
        BY <2>1, <3>1, <4>1 DEF ReadBy
    <3>3. connection[s].reader = s /\ connection[s].sawCompletion
      BY <1>2, <2>1, <3>1
    <3>4. Got(s)
      BY <1>1, <3>3 DEF Gets
    <3>5. QED
      BY <1>4, <3>2, <3>4
  <2>2. ASSUME Listens(s)', request'[s].use = s, request'[s].completion = "ok" PROVE Got(s)'
    BY <1>1, <1>4, <2>2 DEF Gets
  <2>3. pc'[s] = "awaiting" => Drained(s)'
    <3>1. CASE s # r
      BY <1>1, <1>3, <3>1 DEF Gets, Drained
    <3>2. CASE s = r
      BY <1>1, <3>2 DEF Gets, ReadsOn
    <3>3. QED
      BY <3>1, <3>2
  <2>4. pc'[s] = "complete" => Knows(s)'
    <3>1. CASE s # r
      BY <1>1, <1>3, <3>1 DEF Gets, Knows
    <3>2. CASE s = r
      BY <1>1, <3>2 DEF Gets, ReadsOn
    <3>3. QED
      BY <3>1, <3>2
  <2>5. QED
    BY <2>1, <2>2, <2>3, <2>4 DEF Gets
<1>9. QED
  BY <1>6, <1>7, <1>8

(* A step after which the request neither reads nor waits nor is complete. *)
LEMMA LeavesOff ==
  ASSUME NEW r \in Requests, ~Listens(r)', pc'[r] # "complete",
         Unsent(r)' => request'[r].use = request[r].use \/ pc[r] \in Early
  PROVE  ReadsOn(r)
<1>1. pc'[r] # "awaiting"
  BY DEF Listens, Using
<1>2. QED
  BY <1>1 DEF ReadsOn

(* One that leaves the request where it is, with what it has got.          *)
LEMMA StillReads ==
  ASSUME NEW r \in Requests, pc' = pc,
         request'[r].use = request[r].use, request'[r].closed = request[r].closed,
         request'[r].channel = request[r].channel,
         request'[r].responseId = request[r].responseId,
         request[r].call = "cut" => request'[r].call = "cut"
  PROVE  ReadsOn(r)
<1>1. (Over(r)' <=> Over(r)) /\ (Got(r)' <=> Got(r)) /\ (Drained(r)' <=> Drained(r))
  BY DEF Over, Got, Drained
<1>2. Knows(r) => Knows(r)'
  BY DEF Knows
<1>3. QED
  BY <1>1, <1>2 DEF ReadsOn

(* The steps that lead to a connection,                                    *)
LEMMA OpeningReadsOn ==
  ASSUME Types, NEW r \in Requests,
         \/ Begin(r) \/ Acquire(r) \/ Connect(r) \/ AddListener(r)
         \/ RecheckFlag(r) \/ AwaitOpen(r) \/ Insert(r)
  PROVE  ReadsOn(r)
<1>1. pc'[r] \in Early \cup Opening \cup {"sending", "attempting", "failed"}
  BY DEF Begin, Acquire, Connect, AddListener, RecheckFlag, AwaitOpen, Insert, Goto, Early,
         Opening, Types
<1>2. ~Listens(r)' /\ pc'[r] # "complete"
  BY <1>1 DEF Listens, Using, Early, Opening
<1>3. request' = request \/ pc[r] \in Early
  BY DEF Begin, Acquire, Connect, AddListener, RecheckFlag, AwaitOpen, Insert, Early
<1>4. QED
  BY <1>2, <1>3, LeavesOff

(* the ones over SSE, after which the request knows its response unless it *)
(* was cut,                                                                *)
LEMMA CallingReadsOn ==
  ASSUME Types, NEW r \in Requests,
         Attempt(r) \/ SetActiveCall(r) \/ Execute(r) \/ Read(r)
  PROVE  ReadsOn(r)
<1>1. pc[r] \in Calling /\ pc'[r] \in Calling \cup {"complete", "failed"}
  BY CallingDoes
<1>2. ~Unsent(r)' /\ ~Listens(r)'
  BY <1>1 DEF Unsent, Listens, Using, Early, Opening, Calling
<1>3. CASE pc'[r] # "complete"
  BY <1>2, <1>3, LeavesOff
<1>4. CASE pc'[r] = "complete"
  <2>1. Read(r)
    BY <1>4 DEF Attempt, SetActiveCall, Execute, Goto, Types
  <2>2. \/ request' = [request EXCEPT ![r].responseId = TRUE]
        \/ request' = [request EXCEPT ![r].call = "cut"]
    BY <1>4, <2>1 DEF Read, Goto, Types
  <2>3. request'[r].responseId \/ request'[r].call = "cut"
    BY <2>2 DEF Types, Requested
  <2>4. QED
    BY <1>2, <1>4, <2>3 DEF ReadsOn, Knows
<1>5. QED
  BY <1>3, <1>4

(* the end of a request, also of one that gives up,                        *)
LEMMA EndReadsOn ==
  ASSUME Types, NEW r \in Requests, Finish(r) \/ GiveUp(r)
  PROVE  ReadsOn(r)
<1>1. pc'[r] \in {"ended", "attempting", "failed"}
  BY DEF Finish, GiveUp, Goto, Types
<1>2. ~Unsent(r)' /\ ~Listens(r)' /\ pc'[r] # "complete"
  BY <1>1 DEF Unsent, Listens, Using, Early, Opening
<1>3. QED
  BY <1>2, LeavesOff

(* an event that is taken from the channel,                                *)
LEMMA StayReadsOn ==
  ASSUME Types, NEW r \in Requests, ~GiveUp(r), CheckAborted(r) \/ Receive(r)
  PROVE  ReadsOn(r)
<1>1. CASE CheckAborted(r)
  <2>1. request' = request /\ pc[r] = "checking" /\ pc'[r] = "receiving"
    BY <1>1 DEF CheckAborted, Goto, Types
  <2>2. (Over(r)' => Over(r)) /\ (Got(r) => Got(r)')
    BY <2>1 DEF Over, Got
  <2>3. QED
    BY <2>1, <2>2 DEF ReadsOn
<1>2. CASE Receive(r)
  <2> DEFINE q == request[r].channel
  <2>1. q \in Seq({"created", "done", "failed"})
    BY DEF Types, Requested, Channels
  <2>2. PICK t : t = IF q = <<>> THEN q ELSE Tail(q)
    OBVIOUS
  <2>3. /\ request'[r].use = request[r].use /\ request'[r].closed = request[r].closed
        /\ request'[r].channel = t
        /\ request'[r].responseId = (request[r].responseId \/ (q # <<>> /\ Head(q) # "failed"))
    BY <1>2, <2>2, ReceiveDoes
  <2>4. /\ pc[r] = "receiving" /\ (q # <<>> \/ request[r].closed)
        /\ pc'[r] = IF q # <<>> /\ Head(q) = "created" THEN "checking" ELSE "awaiting"
        /\ q = <<>> \/ Head(q) # "failed"
    BY <1>2 DEF Receive, Goto, Types
  <2>5. q # <<>> => /\ q[1] = Head(q) /\ 1 \in 1..Len(q)
                    /\ \A i \in 1..Len(t) : i + 1 \in 1..Len(q) /\ t[i] = q[i + 1]
    BY <2>1, <2>2
  <2>6. q = <<>> => t = <<>>
    BY <2>2
  <2>7. Head(q) = "created" \/ Head(q) = "done" \/ q = <<>>
    BY <2>1, <2>4
  <2> HIDE DEF q
  <2>8. Over(r)' => Over(r)
    <3>1. CASE q = <<>>
      BY <2>4, <3>1 DEF Over
    <3>2. CASE q # <<>> /\ Head(q) = "done"
      BY <2>5, <3>2 DEF Over, q
    <3>3. CASE q # <<>> /\ Head(q) = "created"
      <4>1. pc'[r] # "awaiting"
        BY <2>4, <3>3
      <4>2. ASSUME NEW i \in 1..Len(t), t[i] = "done" PROVE Over(r)
        BY <2>5, <3>3, <4>2 DEF Over, q
      <4>3. QED
        BY <2>3, <4>1, <4>2 DEF Over
    <3>4. QED
      BY <2>7, <3>1, <3>2, <3>3
  <2>9. Got(r) => Got(r)'
    <3>1. CASE q = <<>>
      BY <2>3, <2>6, <3>1 DEF Got, q
    <3>2. CASE q # <<>>
      BY <2>3, <2>4, <3>2 DEF Got
    <3>3. QED
      BY <3>1, <3>2
  <2>10. pc'[r] = "awaiting" => Drained(r)'
    BY <2>3, <2>4, <2>6 DEF Drained
  <2>11. ~Unsent(r)' /\ pc'[r] # "complete"
    BY <2>4 DEF Unsent, Early, Opening
  <2>12. QED
    BY <2>3, <2>8, <2>9, <2>10, <2>11 DEF ReadsOn
<1>3. QED
  BY <1>1, <1>2

(* and the steps of signals, timers and handshakes.                        *)
LEMMA SignalReadsOn ==
  ASSUME Types, NEW r \in Requests, Abort(r) \/ SnapshotListeners(r) \/ CallListeners(r)
  PROVE  ReadsOn(r)
<1>1. pc' = pc /\ request'[r].use = request[r].use /\ request'[r].closed = request[r].closed
      /\ request'[r].channel = request[r].channel
  BY SignalDoes
<1>2. /\ request'[r].responseId = request[r].responseId
      /\ request[r].call = "cut" => request'[r].call = "cut"
  BY DEF Abort, SnapshotListeners, CallListeners, Types, Requested
<1>3. QED
  BY <1>1, <1>2, StillReads

LEMMA TimerReadsOn ==
  ASSUME NEW r \in Requests, TimerFires(r) \/ TimerTask(r) \/ onOpen(r)
  PROVE  ReadsOn(r)
<1>1. pc' = pc /\ request' = request
  BY DEF TimerFires, TimerTask, onOpen
<1>2. QED
  BY <1>1, StillReads

(* Who sends is the first on its connection, or on one that is free, and   *)
(* has got nothing yet.                                                    *)
LEMMA SendKeepsWaits ==
  ASSUME IInv, TalkInv, WaitInv, NEW r \in Requests, Send(r),
         ~connection[request[r].use].closed
  PROVE  WaitInv'
<1>1. pc[r] = "sending" /\ pc[r] \in Using /\ Unsent(r) /\ ~Listens(r)
  BY DEF Send, Using, Unsent, Listens
<1>2. PICK c \in Requests : c = request[r].use
  BY <1>1 DEF IInv, Users, Uses
<1>3. PICK new \in Inputs :
        /\ request' = [request EXCEPT ![r].started = TRUE, ![r].input = new]
        /\ connection' = [connection EXCEPT ![c].reader = r, ![c].sawCompletion = FALSE]
        /\ pc' = [pc EXCEPT ![r] = "checking"]
  BY <1>2 DEF Send, Goto
<1>4. /\ request'[r].use = c /\ request'[r].completion = "open"
      /\ request'[r].channel = <<>> /\ ~request'[r].closed
      /\ \A s \in Requests \ {r} : request'[s] = request[s] /\ pc'[s] = pc[s]
      /\ pc'[r] = "checking"
  <2>1. request[r].completion = "open" /\ request[r].channel = <<>> /\ ~request[r].closed
    BY <1>1 DEF TalkInv, Settled
  <2>2. QED
    BY <1>2, <1>3, <2>1 DEF IInv, Types, Requested
<1>5. /\ connection'[c].reader = r /\ ~connection'[c].sawCompletion
      /\ \A d \in Requests : connection'[d].handling = connection[d].handling
      /\ \A d \in Requests \ {c} : connection'[d] = connection[d]
  BY <1>3 DEF IInv, Types, Connected
<1>6. ~Unsent(r)'
  BY <1>4 DEF Unsent, Early, Opening
<1>7. SUFFICES ASSUME NEW s \in Requests PROVE Fresh(s)' /\ Concludes(s)' /\ Gets(s)'
  BY DEF WaitInv
<1>8. Fresh(s) /\ Concludes(s) /\ Gets(s)
  BY DEF WaitInv
<1>9. CASE s = r
  <2>1. Fresh(r)'
    <3>1. CASE c = r
      BY <1>1, <1>2, <1>5, <1>6, <1>8, <1>9, <3>1 DEF Fresh
    <3>2. CASE c # r
      BY <1>4, <1>6, <3>2 DEF Fresh
    <3>3. QED
      BY <3>1, <3>2
  <2>2. ~Over(r)'
    BY <1>4 DEF Over
  <2>3. Concludes(r)'
    BY <2>2 DEF Concludes
  <2>4. connection'[r].reader = r => ~connection'[r].sawCompletion
    <3>1. CASE c = r
      BY <1>5, <3>1
    <3>2. CASE c # r
      <4>1. connection[r].reader = r => Listens(r)
        BY CodexAssumption DEF TalkInv, ReadBy, CodexAssumption
      <4>2. QED
        BY <1>1, <1>5, <3>2, <4>1
    <3>3. QED
      BY <3>1, <3>2
  <2>5. Gets(r)'
    BY <1>4, <2>4 DEF Gets
  <2>6. QED
    BY <1>9, <2>1, <2>3, <2>5
<1>10. CASE s # r
  <2>1. /\ request'[s] = request[s] /\ pc'[s] = pc[s]
        /\ (Listens(s)' <=> Listens(s)) /\ (Unsent(s)' <=> Unsent(s))
    BY <1>4, <1>10 DEF Listens, Unsent
  <2>2. (Over(s)' <=> Over(s)) /\ (Got(s)' <=> Got(s))
    BY <2>1 DEF Over, Got
  <2>3. Fresh(s)'
    BY <1>5, <1>8, <2>1 DEF Fresh
  <2>4. Concludes(s)'
    <3>1. Listens(s) => request[s].use \in Requests
      BY DEF IInv, Users, Uses, Listens
    <3>2. QED
      BY <1>5, <1>8, <2>1, <2>2, <3>1 DEF Concludes, ClosedEarly
  <2>5. connection'[s].reader = s /\ connection'[s].sawCompletion => Got(s)'
    <3>1. connection'[s].reader = s => s # c
      BY <1>5, <1>10
    <3>2. QED
      BY <1>5, <1>8, <2>2, <3>1 DEF Gets
  <2>6. Gets(s)'
    BY <1>8, <2>1, <2>2, <2>5 DEF Gets, Drained, Knows
  <2>7. QED
    BY <2>3, <2>4, <2>6
<1>11. QED
  BY <1>9, <1>10

(* A request that is complete knows its response.                          *)
LEMMA ReleaseKeepsWaits ==
  ASSUME IInv, TalkInv, WaitInv, NEW r \in Requests, AwaitCompletion(r), ~GiveUp(r)
  PROVE  WaitInv'
<1>1. PICK c \in Requests :
        /\ c = request[r].use
        /\ connection'[c].reader = NoOne
        /\ \A d \in Requests \ {c} : connection'[d] = connection[d]
        /\ pc'[r] = "complete" /\ \A s \in Requests \ {r} : pc'[s] = pc[s]
        /\ request' = request
  BY ReleaseLeaves DEF IInv
<1>2. pc[r] = "awaiting" /\ request[r].completion = "ok" /\ Listens(r)
  BY DEF AwaitCompletion, IInv, Types, Requested, Completions, Listens, Using
<1>3. \A d \in Requests : connection'[d].handling = connection[d].handling
  <2>1. \E k : Release(r, k)
    BY <1>1, SMTT(30), ZenonT(60) DEF AwaitCompletion
  <2>2. \/ connection' = [connection EXCEPT ![c].closed = TRUE, ![c].reader = NoOne]
        \/ connection' = [connection EXCEPT ![c].reader = NoOne]
    BY <1>1, <2>1 DEF Release, Closed
  <2>3. QED
    BY <2>2, SMTT(30), ZenonT(60) DEF IInv, Types, Connected
<1>4. ~Listens(r)' /\ ~Unsent(r)'
  BY <1>1 DEF Listens, Unsent, Using, Early, Opening
<1>5. \A s \in Requests \ {r} : (Listens(s)' <=> Listens(s)) /\ (Unsent(s)' <=> Unsent(s))
  BY <1>1 DEF Listens, Unsent
<1>6. SUFFICES ASSUME NEW s \in Requests PROVE Fresh(s)' /\ Concludes(s)' /\ Gets(s)'
  BY DEF WaitInv
<1>7. Fresh(s) /\ Concludes(s) /\ Gets(s)
  BY DEF WaitInv
<1>8. Got(s)' <=> Got(s)
  BY <1>1 DEF Got
<1>9. connection'[s].reader = s /\ connection'[s].sawCompletion => Got(s)'
  <2>1. connection'[s].reader = s => s # c
    BY <1>1, CodexAssumption DEF CodexAssumption
  <2>2. QED
    BY <1>1, <1>7, <1>8, <2>1 DEF Gets
<1>10. CASE s = r
  <2>1. Fresh(r)' /\ Concludes(r)'
    BY <1>4 DEF Fresh, Concludes
  <2>2. Knows(r)
    <3>1. CASE request[r].use = r
      <4>1. Got(r) /\ Drained(r)
        BY <1>2, <1>7, <1>10, <3>1 DEF Gets
      <4>2. request[r].channel = <<>> => 1..Len(request[r].channel) = {}
        OBVIOUS
      <4>3. QED
        BY <4>1, <4>2 DEF Got, Drained, Knows
    <3>2. CASE request[r].use # r
      BY <1>1, <3>2, CodexAssumption DEF Knows, CodexAssumption
    <3>3. QED
      BY <3>1, <3>2
  <2>3. Knows(r)'
    BY <1>1, <2>2 DEF Knows
  <2>4. Gets(r)'
    BY <1>1, <1>4, <1>9, <1>10, <2>3 DEF Gets
  <2>5. QED
    BY <1>10, <2>1, <2>4
<1>11. CASE s # r
  <2>1. pc'[s] = pc[s] /\ (Listens(s)' <=> Listens(s)) /\ (Unsent(s)' <=> Unsent(s))
    BY <1>1, <1>5, <1>11
  <2>2. Over(s)' <=> Over(s)
    BY <1>1, <2>1 DEF Over
  <2>3. Fresh(s)'
    BY <1>1, <1>3, <1>7, <2>1 DEF Fresh
  <2>4. Concludes(s)'
    <3>1. Listens(s) => request[s].use \in Requests
      BY DEF IInv, Users, Uses, Listens
    <3>2. QED
      BY <1>1, <1>3, <1>7, <2>1, <2>2, <3>1 DEF Concludes, ClosedEarly
  <2>5. Gets(s)'
    BY <1>1, <1>7, <1>8, <1>9, <2>1 DEF Gets, Drained, Knows
  <2>6. QED
    BY <2>3, <2>4, <2>5
<1>12. QED
  BY <1>10, <1>11

(* The events of a connection add to what its reader has got, and a        *)
(* completion that is settled stays so.                                    *)
LEMMA ReaderGets ==
  ASSUME Types, NEW c \in Requests, SocketStep(c),
         NEW r \in Requests, r = connection[c].reader
  PROVE  /\ request'[r].use = request[r].use /\ request'[r].call = request[r].call
         /\ request'[r].responseId = request[r].responseId
         /\ request[r].completion # "open" => request'[r].completion # "open"
         /\ request[r].closed =>
              request'[r].closed /\ request'[r].channel = request[r].channel
         /\ Got(r) => Got(r)'
<1>1. /\ request'[r].use = request[r].use /\ request'[r].call = request[r].call
      /\ request'[r].responseId = request[r].responseId
  <2>1. request' = request \/ Tells(request', r)
    BY SocketTells
  <2>2. QED
    BY <2>1 DEF Tells
<1>2. ASSUME request'[r].channel = request[r].channel,
             request[r].completion # "open" => request'[r].completion # "open",
             request[r].closed => request'[r].closed
      PROVE  /\ request[r].completion # "open" => request'[r].completion # "open"
             /\ request[r].closed =>
                  request'[r].closed /\ request'[r].channel = request[r].channel
             /\ Got(r) => Got(r)'
  BY <1>1, <1>2 DEF Got
<1>3. CASE onOpen(c) \/ ServerCloses(c)
  BY <1>1, <1>2, <1>3 DEF onOpen, ServerCloses
<1>4. CASE CompleteRequest(c)
  BY <1>1, <1>2, <1>4, CompletionSettledDoes, Literals DEF CompleteRequest
<1>5. CASE CloseEvents(c)
  BY <1>1, <1>2, <1>5, EventsClosedDoes DEF CloseEvents
<1>6. CASE onClosed(c) \/ onFailure(c)
  <2>1. PICK how \in {"ok", "failed"} : request' = Completed(request, r, how)
    BY <1>6 DEF onClosed, onFailure
  <2>2. how \in Completions /\ how # "open"
    BY Literals
  <2>3. /\ request'[r].channel = request[r].channel /\ request'[r].closed
        /\ request'[r].completion # "open"
    BY <2>1, <2>2, CompletedDoes
  <2>4. QED
    BY <1>1, <1>2, <2>3
<1>7. CASE onMessage(c)
  <2>1. PICK e \in {"created", "done", "failed"} : request' = Delivered(c, e)
    BY <1>7 DEF onMessage
  <2>2. /\ request'[r].closed = request[r].closed
        /\ request'[r].completion = request[r].completion
        /\ request'[r].channel = IF request[r].closed THEN request[r].channel
                                 ELSE Append(request[r].channel, e)
    BY <2>1, DeliveredDoes
  <2>3. PICK ch : ch = Append(request[r].channel, e)
    OBVIOUS
  <2>4. request[r].channel \in Seq({"created", "done", "failed"})
    BY DEF Types, Requested, Channels
  <2>5. \A i \in 1..Len(request[r].channel) : i \in 1..Len(ch) /\ ch[i] = request[r].channel[i]
    BY <2>3, <2>4
  <2>6. Got(r) => Got(r)'
    <3>1. CASE request[r].closed
      BY <1>1, <2>2, <3>1 DEF Got
    <3>2. CASE ~request[r].closed
      <4>1. request'[r].channel = ch
        BY <2>2, <2>3, <3>2
      <4>2. ASSUME NEW i \in 1..Len(request[r].channel), request[r].channel[i] # "failed"
            PROVE  i \in 1..Len(ch) /\ ch[i] # "failed"
        BY <2>5, <4>2
      <4>3. QED
        BY <1>1, <4>1, <4>2 DEF Got
    <3>3. QED
      BY <3>1, <3>2
  <2>7. QED
    BY <1>1, <2>2, <2>6
<1>8. QED
  BY <1>3, <1>4, <1>5, <1>6, <1>7 DEF SocketStep

(* The handling of a message begins with the last event of an answer.      *)
LEMMA HandlingGoesOn ==
  ASSUME Types, NEW c \in Requests, SocketStep(c)
  PROVE  \/ connection'[c].handling = connection[c].handling
         \/ /\ onMessage(c) /\ connection'[c].handling = "completing"
         \/ /\ CompleteRequest(c) /\ connection'[c].handling = "closing"
         \/ /\ CloseEvents(c) /\ connection'[c].handling = "no"
<1>1. CASE onOpen(c)
  BY <1>1, SMTT(30), ZenonT(60) DEF onOpen, Types, Connected
<1>2. CASE onMessage(c)
  <2>1. \/ connection' = connection
        \/ connection' =
             [connection EXCEPT ![c].sawCompletion = TRUE, ![c].handling = "completing"]
    BY <1>2 DEF onMessage
  <2>2. QED
    BY <1>2, <2>1, SMTT(30), ZenonT(60) DEF Types, Connected
<1>3. CASE CompleteRequest(c)
  BY <1>3, SMTT(30), ZenonT(60) DEF CompleteRequest, Types, Connected
<1>4. CASE CloseEvents(c)
  BY <1>4, SMTT(30), ZenonT(60) DEF CloseEvents, Types, Connected
<1>5. CASE onClosed(c)
  BY <1>5, SMTT(30), ZenonT(60) DEF onClosed, Types, Connected
<1>6. CASE onFailure(c)
  BY <1>6, SMTT(30), ZenonT(60) DEF onFailure, Types, Connected
<1>7. CASE ServerCloses(c)
  BY <1>7, SMTT(30), ZenonT(60) DEF ServerCloses, Types, Connected
<1>8. QED
  BY <1>1, <1>2, <1>3, <1>4, <1>5, <1>6, <1>7 DEF SocketStep

(* A message reaches the request that asked, whose answer is not over      *)
(* unless its events were closed early.                                    *)
LEMMA MessageMeets ==
  ASSUME IInv, TalkInv, WaitInv, NEW c \in Requests, onMessage(c)
  PROVE  \E r \in Requests :
           /\ r = connection[c].reader /\ request[r].use = c /\ Listens(r)
           /\ request[r].completion = "open" /\ connection[c].handling = "no"
           /\ Over(r) => ClosedEarly(r)
<1>1. PICK r \in Requests : r = connection[c].reader /\ r # NoOne
  BY DEF onMessage, IInv, Types, Connected, Owner
<1>2. /\ asked[c].by = r /\ Listens(r) /\ request[r].use = c
      /\ request[r].completion = "open" /\ connection[c].handling = "no"
  BY <1>1 DEF onMessage, TalkInv, AskedOf, ReadBy, Listens
<1>3. Over(r) => ClosedEarly(r)
  BY <1>2 DEF WaitInv, Concludes
<1>4. QED
  BY <1>1, <1>2, <1>3

(* The socket's steps keep who waits for what.                             *)
LEMMA SocketKeepsFresh ==
  ASSUME IInv, TalkInv, WaitInv, NEW c \in Requests, SocketStep(c)
  PROVE  Fresh(c)'
<1>1. pc' = pc /\ Fresh(c)
  BY SocketDoes DEF IInv, WaitInv
<1>2. request'[c].use = request[c].use
  BY SocketTells DEF IInv
<1>3. ASSUME Unsent(c), request[c].use = c PROVE connection'[c].handling = "no"
  <2>1. connection[c].handling = "no"
    BY <1>1, <1>3 DEF Fresh
  <2>2. ~onMessage(c)
    <3>1. SUFFICES ASSUME onMessage(c) PROVE FALSE
      OBVIOUS
    <3>2. PICK r \in Requests : request[r].use = c /\ Listens(r)
      BY <3>1, MessageMeets
    <3>3. r # c
      BY <1>3, <3>2, Apart
    <3>4. Begun(c)
      BY <3>2, <3>3, CodexAssumption DEF IInv, Users, Uses, CodexAssumption
    <3>5. pc[c] = "sending" /\ pc[c] \in Using /\ pc[r] \in Using
      BY <1>3, <3>2, <3>4 DEF Begun, Unsent, Using, Listens
    <3>6. QED
      BY <1>3, <3>2, <3>3, <3>5 DEF IInv, Users, OneRequestPerConnection
  <2>3. ~CompleteRequest(c)
    BY <2>1 DEF CompleteRequest
  <2>4. QED
    BY <2>1, <2>2, <2>3, HandlingGoesOn DEF IInv
<1>4. ASSUME Listens(c), request[c].use = c, connection'[c].handling = "closing"
      PROVE  request'[c].completion # "open"
  <2>1. connection[c].reader = c
    BY <1>4 DEF IInv, Users, OneRequestPerConnection, Listens
  <2>2. request[c].completion # "open" => request'[c].completion # "open"
    BY <2>1, ReaderGets DEF IInv
  <2>3. CASE connection[c].handling = "closing"
    BY <1>1, <1>4, <2>2, <2>3 DEF Fresh
  <2>4. CASE CompleteRequest(c)
    <3>1. request' = CompletionSettled(request, c, "ok")
      BY <2>1, <2>4 DEF CompleteRequest
    <3>2. request'[c].completion =
            IF request[c].completion = "open" THEN "ok" ELSE request[c].completion
      BY <3>1, CompletionSettledDoes, Literals DEF IInv
    <3>3. QED
      BY <3>2
  <2>5. QED
    BY <1>4, <2>3, <2>4, HandlingGoesOn DEF IInv
<1>5. QED
  BY <1>1, <1>2, <1>3, <1>4 DEF Fresh, Unsent, Listens

LEMMA SocketKeepsConcludes ==
  ASSUME IInv, TalkInv, WaitInv, NEW c \in Requests, SocketStep(c),
         NEW r \in Requests, r = connection[c].reader, request[r].use = c
  PROVE  Concludes(r)'
<1>1. pc' = pc /\ (Listens(r)' <=> Listens(r)) /\ request'[r].use = c
  BY SocketDoes, SocketTells DEF IInv, Listens
<1>2. Concludes(r) /\ Fresh(c)
  BY DEF WaitInv
<1>3. /\ request[r].completion # "open" => request'[r].completion # "open"
      /\ request[r].closed => request'[r].closed
  BY ReaderGets DEF IInv
<1>4. SUFFICES ASSUME Listens(r), request'[r].completion = "open", Over(r)'
               PROVE  connection'[c].handling = "completing" \/ (request'[r].closed /\ c # r)
  BY <1>1 DEF Concludes, ClosedEarly
<1>5. request[r].completion = "open"
  BY <1>3, <1>4
<1>6. ASSUME request' = request, connection'[c].handling = connection[c].handling
      PROVE  connection'[c].handling = "completing" \/ (request'[r].closed /\ c # r)
  <2>1. Over(r)
    BY <1>1, <1>4, <1>6 DEF Over
  <2>2. QED
    BY <1>2, <1>4, <1>5, <1>6, <2>1 DEF Concludes, ClosedEarly
<1>7. CASE onOpen(c) \/ ServerCloses(c)
  <2>1. request' = request
    BY <1>7 DEF onOpen, ServerCloses
  <2>2. connection'[c].handling = connection[c].handling
    BY <1>7, SMTT(30), ZenonT(60) DEF onOpen, ServerCloses, IInv, Types, Connected
  <2>3. QED
    BY <1>6, <2>1, <2>2
<1>8. CASE onMessage(c)
  <2>1. Over(r) => request[r].closed /\ c # r
    BY <1>8, MessageMeets DEF ClosedEarly
  <2>2. CASE Over(r)
    BY <1>3, <2>1, <2>2
  <2>3. CASE ~Over(r)
    <3>1. PICK e \in {"created", "done", "failed"} :
            /\ request' = Delivered(c, e)
            /\ e = "done" => connection' =
                 [connection EXCEPT ![c].sawCompletion = TRUE, ![c].handling = "completing"]
      BY <1>8 DEF onMessage
    <3>2. ~request[r].closed /\ pc[r] # "awaiting"
      BY <2>3 DEF Over
    <3>3. PICK ch : ch = Append(request[r].channel, e)
      OBVIOUS
    <3>4. request'[r].channel = ch /\ ~request'[r].closed
      <4>1. /\ request'[r].closed = request[r].closed
            /\ request'[r].channel = IF request[r].closed THEN request[r].channel
                                     ELSE Append(request[r].channel, e)
        BY <3>1, DeliveredDoes DEF IInv
      <4>2. QED
        BY <3>2, <3>3, <4>1
    <3>5. PICK i \in 1..Len(ch) : ch[i] = "done"
      BY <1>1, <1>4, <3>2, <3>4 DEF Over
    <3>6. request[r].channel \in Seq({"created", "done", "failed"})
      BY DEF IInv, Types, Requested, Channels
    <3>7. i = Len(request[r].channel) + 1 \/ i \in 1..Len(request[r].channel)
      BY <3>3, <3>5, <3>6
    <3>8. i \in 1..Len(request[r].channel) => request[r].channel[i] = "done"
      BY <3>3, <3>5, <3>6
    <3>9. e = "done"
      BY <2>3, <3>3, <3>5, <3>6, <3>7, <3>8 DEF Over
    <3>10. connection'[c].handling = "completing"
      BY <3>1, <3>9 DEF IInv, Types, Connected
    <3>11. QED
      BY <3>10
  <2>4. QED
    BY <2>2, <2>3
<1>9. CASE CompleteRequest(c)
  <2>1. request'[r].completion =
          IF request[r].completion = "open" THEN "ok" ELSE request[r].completion
    BY <1>9, CompletionSettledDoes, Literals DEF CompleteRequest, IInv
  <2>2. QED
    BY <1>4, <2>1
<1>10. CASE CloseEvents(c)
  <2>1. request'[r].closed
    BY <1>10, EventsClosedDoes DEF CloseEvents, IInv
  <2>2. c # r
    BY <1>2, <1>4, <1>5, <1>10 DEF Fresh, CloseEvents
  <2>3. QED
    BY <2>1, <2>2
<1>11. CASE onClosed(c) \/ onFailure(c)
  <2>1. PICK how \in {"ok", "failed"} : request' = Completed(request, r, how)
    BY <1>11 DEF onClosed, onFailure
  <2>2. how \in Completions /\ how # "open"
    BY Literals
  <2>3. request'[r].completion # "open"
    BY <2>1, <2>2, CompletedDoes DEF IInv
  <2>4. QED
    BY <1>4, <2>3
<1>12. QED
  BY <1>7, <1>8, <1>9, <1>10, <1>11 DEF SocketStep

(* A request that reads its own connection has got what the connection saw.*)
LEMMA SocketKeepsGot ==
  ASSUME IInv, TalkInv, WaitInv, NEW c \in Requests, SocketStep(c),
         connection[c].reader = c, connection'[c].sawCompletion
  PROVE  Got(c)'
<1>1. Got(c) => Got(c)'
  BY ReaderGets DEF IInv
<1>2. CASE connection[c].sawCompletion
  BY <1>1, <1>2 DEF WaitInv, Gets
<1>3. CASE ~connection[c].sawCompletion
  <2>1. onMessage(c)
    <3>1. CASE onOpen(c) \/ ServerCloses(c)
      BY <1>3, <3>1, SMTT(30), ZenonT(60) DEF onOpen, ServerCloses, IInv, Types, Connected
    <3>2. CASE CompleteRequest(c) \/ CloseEvents(c)
      BY <1>3, <3>2, SMTT(30), ZenonT(60) DEF CompleteRequest, CloseEvents, IInv, Types, Connected
    <3>3. CASE onClosed(c)
      BY <1>3, <3>3, SMTT(30), ZenonT(60) DEF onClosed, IInv, Types, Connected
    <3>4. CASE onFailure(c)
      BY <1>3, <3>4, SMTT(30), ZenonT(60) DEF onFailure, IInv, Types, Connected
    <3>5. QED
      BY <3>1, <3>2, <3>3, <3>4 DEF SocketStep
  <2>2. request' = Delivered(c, "done")
    BY <1>3, <2>1 DEF onMessage
  <2>3. ~request[c].closed
    BY <2>1, MessageMeets DEF ClosedEarly, Over
  <2>4. PICK ch : ch = Append(request[c].channel, "done")
    OBVIOUS
  <2>5. request'[c].channel = ch
    <3>1. request'[c].channel = IF request[c].closed THEN request[c].channel
                                ELSE Append(request[c].channel, "done")
      BY <2>2, DeliveredDoes DEF IInv
    <3>2. QED
      BY <2>3, <2>4, <3>1
  <2>6. request[c].channel \in Seq({"created", "done", "failed"})
    BY DEF IInv, Types, Requested, Channels
  <2>7. Len(ch) \in 1..Len(ch) /\ ch[Len(ch)] = "done"
    BY <2>4, <2>6
  <2>8. QED
    BY <2>5, <2>7 DEF Got
<1>4. QED
  BY <1>2, <1>3

LEMMA SocketKeepsWaits ==
  ASSUME IInv, TalkInv, WaitInv, NEW c \in Requests, SocketStep(c)
  PROVE  WaitInv'
<1>1. /\ pc' = pc /\ \A d \in Requests : connection'[d].reader = connection[d].reader
      /\ \A d \in Requests \ {c} : connection'[d] = connection[d]
  BY SocketDoes DEF IInv
<1>2. SUFFICES ASSUME NEW s \in Requests PROVE Fresh(s)' /\ Concludes(s)' /\ Gets(s)'
  BY DEF WaitInv
<1>3. Fresh(s) /\ Concludes(s) /\ Gets(s)
  BY DEF WaitInv
<1>4. /\ (Listens(s)' <=> Listens(s)) /\ (Unsent(s)' <=> Unsent(s))
      /\ request'[s].use = request[s].use
  BY <1>1, SocketTells DEF Listens, Unsent, IInv
<1>5. s # connection[c].reader => request'[s] = request[s]
  BY SocketTells DEF IInv, Tells
(* Who reads a connection uses it, and who listens reads what it uses.     *)
<1>6. \A d \in Requests : s = connection[d].reader => Listens(s) /\ request[s].use = d
  BY CodexAssumption DEF TalkInv, ReadBy, CodexAssumption
<1>7. Listens(s) => request[s].use \in Requests /\ connection[request[s].use].reader = s
  BY DEF IInv, Users, Uses, OneRequestPerConnection, Listens
<1>8. /\ request'[s].call = request[s].call /\ request'[s].responseId = request[s].responseId
      /\ Got(s) => Got(s)'
      /\ request[s].completion # "open" => request'[s].completion # "open"
      /\ request[s].closed => request'[s].closed /\ request'[s].channel = request[s].channel
  <2>1. CASE s = connection[c].reader
    BY <2>1, ReaderGets DEF IInv
  <2>2. CASE s # connection[c].reader
    BY <1>5, <2>2 DEF Got
  <2>3. QED
    BY <2>1, <2>2
<1>9. Fresh(s)'
  <2>1. CASE s = c
    BY <2>1, SocketKeepsFresh
  <2>2. CASE s # c
    BY <1>1, <1>3, <1>4, <1>8, <2>2 DEF Fresh
  <2>3. QED
    BY <2>1, <2>2
<1>10. Concludes(s)'
  <2>1. CASE ~Listens(s)
    BY <1>4, <2>1 DEF Concludes
  <2>2. CASE Listens(s) /\ request[s].use = c
    BY <1>7, <2>2, SocketKeepsConcludes
  <2>3. CASE Listens(s) /\ request[s].use # c
    <3>1. request'[s] = request[s] /\ connection'[request[s].use] = connection[request[s].use]
      BY <1>1, <1>5, <1>6, <1>7, <2>3
    <3>2. Over(s)' <=> Over(s)
      BY <1>1, <3>1 DEF Over
    <3>3. QED
      BY <1>3, <2>3, <1>4, <3>1, <3>2 DEF Concludes, ClosedEarly
  <2>4. QED
    BY <2>1, <2>2, <2>3
<1>11. connection'[s].reader = s /\ connection'[s].sawCompletion => Got(s)'
  <2>1. CASE s = c
    BY <1>1, <2>1, SocketKeepsGot
  <2>2. CASE s # c
    BY <1>1, <1>3, <1>8, <2>2 DEF Gets
  <2>3. QED
    BY <2>1, <2>2
<1>12. Listens(s)' /\ request'[s].use = s /\ request'[s].completion = "ok" => Got(s)'
  <2>1. SUFFICES ASSUME Listens(s), request[s].use = s, request'[s].completion = "ok"
                 PROVE  Got(s)'
    BY <1>4
  <2>2. CASE request[s].completion = "ok"
    BY <1>3, <1>8, <2>1, <2>2 DEF Gets
  <2>3. CASE request[s].completion # "ok"
    <3>1. s = connection[c].reader
      BY <1>5, <2>1, <2>3
    <3>2. s = c
      BY <1>6, <2>1, <3>1
    <3>3. connection[c].sawCompletion
      BY <2>1, <2>3, <3>1, ReaderHears
    <3>4. QED
      BY <1>3, <1>8, <3>1, <3>2, <3>3 DEF Gets
  <2>4. QED
    BY <2>2, <2>3
<1>13. /\ pc'[s] = "awaiting" => Drained(s)'
       /\ pc'[s] = "complete" => Knows(s)'
  BY <1>1, <1>3, <1>4, <1>8 DEF Gets, Drained, Knows
<1>14. Gets(s)'
  BY <1>11, <1>12, <1>13 DEF Gets
<1>15. QED
  BY <1>9, <1>10, <1>14

(* Every step does.                                                        *)
LEMMA WaitStep ==
  ASSUME IInv, TalkInv, WaitInv, [Next]_vars
  PROVE  WaitInv'
<1>1. TalkInv' /\ Types
  BY TalkStep DEF IInv
<1>2. ASSUME NEW r \in Requests, Wires, Quiet(r), ReadsOn(r) PROVE WaitInv'
  BY <1>1, <1>2, QuietKeepsWaits
<1>3. ASSUME NEW r \in Requests,
             \/ Begin(r) \/ Acquire(r) \/ Connect(r) \/ AddListener(r)
             \/ RecheckFlag(r) \/ AwaitOpen(r) \/ Insert(r)
      PROVE  WaitInv'
  BY <1>1, <1>2, <1>3, OpeningIsQuiet, OpeningReadsOn
<1>4. ASSUME NEW r \in Requests, Finish(r) PROVE WaitInv'
  BY <1>1, <1>2, <1>4, FinishIsQuiet, EndReadsOn
<1>5. ASSUME NEW r \in Requests, Send(r) PROVE WaitInv'
  <2>1. CASE connection[request[r].use].closed
    <3>1. GiveUp(r)
      BY <1>5, <2>1 DEF Send
    <3>2. QED
      BY <1>1, <1>2, <1>5, <2>1, <3>1, GiveUpIsQuiet, EndReadsOn
  <2>2. CASE ~connection[request[r].use].closed
    BY <1>5, <2>2, SendKeepsWaits
  <2>3. QED
    BY <2>1, <2>2
<1>6. ASSUME NEW r \in Requests, CheckAborted(r) \/ Receive(r) PROVE WaitInv'
  <2>1. CASE GiveUp(r)
    BY <1>1, <1>2, <1>6, <2>1, GiveUpIsQuiet, EndReadsOn
  <2>2. CASE ~GiveUp(r)
    BY <1>1, <1>2, <1>6, <2>2, StayIsQuiet, StayReadsOn
  <2>3. QED
    BY <2>1, <2>2
<1>7. ASSUME NEW r \in Requests, AwaitCompletion(r) PROVE WaitInv'
  <2>1. CASE GiveUp(r)
    BY <1>1, <1>2, <1>7, <2>1, GiveUpIsQuiet, EndReadsOn
  <2>2. CASE ~GiveUp(r)
    BY <1>7, <2>2, ReleaseKeepsWaits
  <2>3. QED
    BY <2>1, <2>2
<1>8. ASSUME NEW r \in Requests, Attempt(r) \/ SetActiveCall(r) \/ Execute(r) \/ Read(r)
      PROVE  WaitInv'
  <2>1. TalkTypes
    BY DEF TalkInv
  <2>2. QED
    BY <1>1, <1>2, <1>8, <2>1, CallingIsQuiet, CallingReadsOn
<1>9. ASSUME NEW r \in Requests, Abort(r) \/ SnapshotListeners(r) \/ CallListeners(r)
      PROVE  WaitInv'
  BY <1>1, <1>2, <1>9, SignalIsQuiet, SignalReadsOn
<1>10. ASSUME NEW r \in Requests, TimerFires(r) \/ TimerTask(r) PROVE WaitInv'
  BY <1>2, <1>10, TimerIsQuiet, TimerReadsOn
<1>11. ASSUME NEW r \in Requests, SocketStep(r) PROVE WaitInv'
  BY <1>11, SocketKeepsWaits
<1>12. CASE UNCHANGED vars
  <2>1. pc' = pc /\ request' = request /\ connection' = connection
    BY <1>12 DEF vars
  <2>2. ASSUME NEW r \in Requests PROVE Fresh(r)' /\ Concludes(r)' /\ Gets(r)'
    <3>1. Fresh(r) /\ Concludes(r) /\ Gets(r)
      BY DEF WaitInv
    <3>2. (Listens(r)' <=> Listens(r)) /\ (Unsent(r)' <=> Unsent(r))
      BY <2>1, Zenon DEF Listens, Unsent
    <3>3. /\ (Over(r)' <=> Over(r)) /\ (Got(r)' <=> Got(r)) /\ (Drained(r)' <=> Drained(r))
          /\ (Knows(r)' <=> Knows(r)) /\ (ClosedEarly(r)' <=> ClosedEarly(r))
      BY <2>1, Zenon DEF Over, Got, Drained, Knows, ClosedEarly
    <3>4. QED
      BY <2>1, <3>1, <3>2, <3>3 DEF Fresh, Concludes, Gets
  <2>3. QED
    BY <2>2 DEF WaitInv
<1>13. QED
  BY <1>3, <1>4, <1>5, <1>6, <1>7, <1>8, <1>9, <1>10, <1>11, <1>12
     DEF Next, Advance, Network, Timer, SocketStep

(* Nobody waits before the first request.                                  *)
LEMMA WaitStarts ==
  ASSUME Init
  PROVE  WaitInv
<1>1. \A r \in Requests : pc[r] = "new" /\ ~Listens(r)
  BY DEF Init, Listens, Using
<1>2. \A c \in Requests : connection[c].reader = NoOne /\ connection[c].handling = "no"
  BY DEF Init
<1>3. \A r \in Requests : r # NoOne
  BY CodexAssumption DEF CodexAssumption
<1>4. QED
  BY <1>1, <1>2, <1>3 DEF WaitInv, Fresh, Concludes, Gets

(* Who waits is told, in every reachable state.                            *)
THEOREM WaitInvariant == Spec => [](IInv /\ TalkInv /\ WaitInv)
<1>1. Init => IInv /\ TalkInv /\ WaitInv
  BY InitHolds, TalkStarts, WaitStarts
<1>2. IInv /\ TalkInv /\ WaitInv /\ [Next]_vars => (IInv /\ TalkInv /\ WaitInv)'
  BY TypesStep, UsersStep, SocketsStep, WatchedStep, CalledStep, OutcomesStep,
     ReachedStep, OpensStep, AnsweredStep, TalkStep, WaitStep DEF IInv
<1>3. QED
  BY <1>1, <1>2, PTL DEF Spec

(* awaitOpen, receiveCatching and the completion are not waited for when   *)
(* nothing can come: the handshake is under way, the server owes an answer *)
(* to this request or has closed its side unnoticed, the last message is   *)
(* being handled, or complete() has closed the events early, after the     *)
(* request before let the connection go; and an abort whose listeners were *)
(* called has closed the connection that was opening.                      *)
THEOREM WaitsAreAnswered == Spec => []WaitsEnd
<1>1. IInv => AbortReachesConnection
  BY DEF IInv, Reached, AbortReachesConnection
<1>2. IInv /\ TalkInv /\ WaitInv => NobodyWaitsInVain
  <2> SUFFICES ASSUME IInv, TalkInv, WaitInv, NEW r \in Requests
               PROVE  /\ pc[r] = "opening" =>
                           \/ connection[request[r].use].socket = "connecting"
                           \/ connection[request[r].use].opened # "no"
                      /\ pc[r] = "receiving" /\ request[r].channel = <<>> /\ ~request[r].closed
                           => \/ asked[request[r].use].by = r
                              \/ connection[request[r].use].socket = "deaf"
                      /\ pc[r] = "awaiting" /\ request[r].completion = "open"
                           => \/ connection[request[r].use].handling = "completing"
                              \/ ClosedEarly(r)
    BY DEF NobodyWaitsInVain
  <2>1. ASSUME pc[r] = "opening"
        PROVE  \/ connection[request[r].use].socket = "connecting"
               \/ connection[request[r].use].opened # "no"
    <3>1. request[r].use = r
      BY <2>1 DEF IInv, Users, Uses, Opening
    <3>2. connection[r].socket # "none"
      BY <2>1 DEF IInv, Sockets, Opening
    <3>3. QED
      BY <3>1, <3>2 DEF IInv, Opens
  <2>2. ASSUME pc[r] = "receiving", request[r].channel = <<>>, ~request[r].closed
        PROVE  \/ asked[request[r].use].by = r
               \/ connection[request[r].use].socket = "deaf"
    <3>1. Unsettled(r) /\ pc[r] \in Reading
      BY <2>2 DEF Unsettled, Reading
    <3>2. QED
      BY <3>1 DEF IInv, Answered
  <2>3. ASSUME pc[r] = "awaiting", request[r].completion = "open"
        PROVE  connection[request[r].use].handling = "completing" \/ ClosedEarly(r)
    <3>1. Listens(r) /\ Over(r)
      BY <2>3 DEF Listens, Using, Over
    <3>2. QED
      BY <2>3, <3>1 DEF WaitInv, Concludes
  <2>4. QED
    BY <2>1, <2>2, <2>3
<1>3. IInv /\ TalkInv /\ WaitInv => WaitsEnd
  BY <1>1, <1>2 DEF WaitsEnd
<1>4. QED
  BY <1>3, WaitInvariant, PTL

(* A stream that ends with done was answered to the end, or over an SSE    *)
(* response whose end the code does not tell from a cut; and its request   *)
(* has seen the answer, but for one that took over a connection whose last *)
(* answer was still being handled.                                         *)
THEOREM DoneIsAnswered == Spec => []DoneMeansAnswered
<1>1. TalkInv /\ WaitInv => DoneMeansAnswered
  BY DEF TalkInv, WaitInv, Completes, AnsweredOrCut, Gets, Knows, DoneMeansAnswered
<1>2. QED
  BY <1>1, WaitInvariant, PTL

=============================================================================
