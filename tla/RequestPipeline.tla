--------------------------- MODULE RequestPipeline --------------------------
(***************************************************************************)
(* A request's way through the server: the asyncio frontend, the tokenizer *)
(* workers, the scheduler ranks, the detokenizer, and the queues between   *)
(* them.  A PUSH socket hands a message to any worker; each worker has a   *)
(* FIFO into rank 0, which drains them in any order.  Rank 0 tells the     *)
(* other ranks how many messages to take (a gloo broadcast, counts) and    *)
(* publishes them (a PUB socket, pub), and so it does with the drafts of a *)
(* speculator; the forward pass is a collective of all ranks.              *)
(*                                                                         *)
(* A request generates the tokens 1 .. OutLen, and its text is a sequence  *)
(* of characters, named by their positions: a token completes any number   *)
(* of them and may end inside one.  What a rank does with a batch is the   *)
(* business of Scheduler and Speculation: here every rank schedules by the *)
(* same rule from what it was told, and results are read one iteration     *)
(* after their batch was launched.                                         *)
(***************************************************************************)
EXTENDS Integers, FiniteSets, SequencesExt

CONSTANTS
    NumClients,     \* clients: one request each, named by its uid
    OutLen,         \* Client -> tokens it generates
    EosEnds,        \* clients whose last token is Eos; the others' is max_tokens
    Complete,       \* Client -> characters that its first n tokens complete
    PartialAt,      \* Client -> tokens after which the text ends inside a character
    Kind,           \* Client -> the kind of each character
    MaybeLong,      \* clients whose prompt may exceed max_seq_len
    Streaming,      \* clients that are served by stream_with_cancellation
    Tokenizer,      \* tokenizer workers
    Sizes,          \* sizes of the tensor-parallel group: subset of {1, 2}
    MaxStep,        \* most tokens a verify round commits
    MaxCounts       \* bound: broadcasts that rank 0 may be ahead of a rank

Client == 0 .. NumClients - 1

ASSUME ClientsAssumption ==
    /\ NumClients \in Nat
    /\ OutLen \in [Client -> Nat \ {0}]
    /\ EosEnds \subseteq Client
    /\ MaybeLong \subseteq Client /\ Streaming \subseteq Client

TextLen(u) == Complete[u][OutLen[u]]

\* Eos has no text, and a character begun is completed or stays incomplete.
ASSUME TextAssumption ==
    \A u \in Client :
        /\ Complete[u] \in [0 .. OutLen[u] -> Nat] /\ Complete[u][0] = 0
        /\ \A m, n \in 0 .. OutLen[u] : m <= n => Complete[u][m] <= Complete[u][n]
        /\ PartialAt[u] \subseteq 1 .. OutLen[u]
        /\ \A n \in 1 .. OutLen[u] :
              n - 1 \in PartialAt[u] /\ n \notin PartialAt[u] => Complete[u][n - 1] < Complete[u][n]
        /\ u \in EosEnds => TextLen(u) = Complete[u][OutLen[u] - 1]
        /\ Kind[u] \in [1 .. TextLen(u) -> {"cjk", "space", "other"}]
ASSUME GroupAssumption ==
    /\ Sizes \subseteq {1, 2} /\ Tokenizer # {}
    /\ {MaxStep, MaxCounts} \subseteq Nat \ {0}

Rank == 0 .. 1

VARIABLES
    size, speculating, \* the server's arguments
    tooLong,        \* clients whose prompt does exceed max_seq_len
    ready,          \* processes that have sent their acknowledgement
    \* FrontendManager
    phase,          \* uid -> "new", "waiting", "done" or "gone"
    ackMap,         \* ack_map: uid -> replies
    event,          \* uids whose event is set
    taken,          \* uid -> replies wait_for_ack is yielding
    got,            \* uid -> the characters the client has received
    aborting,       \* uids whose abort_user is asleep
    \* queues
    toTokenizer, toBackend, \* worker -> messages into and out of it
    counts, pub,    \* rank -> broadcasts and published messages not taken yet
    toDetokenizer, toFrontend, \* batches of replies
    \* scheduler ranks
    pc,             \* rank -> where it is in overlap_loop
    raw,            \* messages rank 0 has drained
    live,           \* rank -> uid -> tokens committed
    batch,          \* rank -> uids of the batch it is about to launch
    last,           \* rank -> uid -> tokens that the batch in flight computes
    \* detokenizer
    decodeMap       \* decode_map: uid -> [end, decoded, sent]

args     == <<size, speculating, tooLong>>
frontend == <<phase, ackMap, event, taken, got, aborting>>
queues   == <<toTokenizer, toBackend, counts, pub, toDetokenizer, toFrontend>>
ranks    == <<pc, raw, live, batch, last>>
vars     == <<args, ready, frontend, queues, ranks, decodeMap>>

Lesser(i, j) == IF i < j THEN i ELSE j
Put(map, key, value) == [k \in DOMAIN map \cup {key} |-> IF k = key THEN value ELSE map[k]]
Positions(lo, hi) == [i \in 1 .. hi - lo + 1 |-> lo + i - 1]

Group  == 0 .. size - 1
Others == Group \ {0}
Process == Tokenizer \cup {"scheduler", "detokenizer"}

Init ==
    /\ size \in Sizes /\ speculating \in BOOLEAN
    /\ tooLong \in SUBSET MaybeLong
    /\ ready = {}
    /\ phase = [u \in Client |-> "new"]
    /\ ackMap = <<>> /\ event = {} /\ aborting = {}
    /\ taken = [u \in Client |-> <<>>] /\ got = [u \in Client |-> <<>>]
    /\ toTokenizer = [t \in Tokenizer |-> <<>>] /\ toBackend = [t \in Tokenizer |-> <<>>]
    /\ counts = [r \in Rank |-> <<>>] /\ pub = [r \in Rank |-> <<>>]
    /\ toDetokenizer = <<>> /\ toFrontend = <<>>
    /\ pc = [r \in Rank |-> "recv"] /\ raw = <<>>
    /\ live = [r \in Rank |-> <<>>] /\ batch = [r \in Rank |-> {}]
    /\ last = [r \in Rank |-> <<>>]
    /\ decodeMap = <<>>

(* A process is up; rank 0 speaks for its group, after sync_all_ranks.      *)
(* launch_server serves when all have spoken.                               *)
Start(p) ==
    /\ p \notin ready
    /\ ready' = ready \cup {p}
    /\ UNCHANGED <<args, frontend, queues, ranks, decodeMap>>
-----------------------------------------------------------------------------
(* The frontend, one asyncio task at a time *)

TokenizeMsg(u) == [type |-> "user", uid |-> u]
AbortMsg(u)    == [type |-> "abort", uid |-> u]

(* send_one: the socket chooses the worker. *)
SendOne(msg) ==
    \E t \in Tokenizer : toTokenizer' = [toTokenizer EXCEPT ![t] = Append(@, msg)]

(* new_user takes the next uid, and the message of the request follows.     *)
NewUser(u) ==
    /\ ready = Process
    /\ phase[u] = "new" /\ \A v \in Client : v < u => phase[v] # "new"
    /\ phase' = [phase EXCEPT ![u] = "waiting"]
    /\ ackMap' = Put(ackMap, u, <<>>)
    /\ SendOne(TokenizeMsg(u))
    /\ UNCHANGED <<args, ready, event, taken, got, aborting, toBackend, counts, pub,
                   toDetokenizer, toFrontend, ranks, decodeMap>>

(* listen: replies for a uid that has left ack_map are dropped.             *)
Listen ==
    /\ toFrontend # <<>>
    /\ LET replies == {a \in Head(toFrontend) : a.uid \in DOMAIN ackMap} IN
       /\ ackMap' = [u \in DOMAIN ackMap |->
                       ackMap[u] \o SetToSeq({a \in replies : a.uid = u})]
       /\ event' = event \cup {a.uid : a \in replies}
    /\ toFrontend' = Tail(toFrontend)
    /\ UNCHANGED <<args, ready, phase, taken, got, aborting, toTokenizer, toBackend,
                   counts, pub, toDetokenizer, ranks, decodeMap>>

(* Mutant: the replies taken stay in the map. *)
WakeWithoutReset(u) ==
    /\ phase[u] = "waiting" /\ taken[u] = <<>> /\ u \in event
    /\ event' = event \ {u}
    /\ taken' = [taken EXCEPT ![u] = ackMap[u]]
    /\ UNCHANGED <<args, ready, phase, ackMap, got, aborting, queues, ranks, decodeMap>>

(* wait_for_ack: the event is cleared and the replies are taken together.   *)
Wake(u) ==
    /\ phase[u] = "waiting" /\ taken[u] = <<>> /\ u \in event
    /\ event' = event \ {u}
    /\ taken' = [taken EXCEPT ![u] = ackMap[u]]
    /\ ackMap' = [ackMap EXCEPT ![u] = <<>>]
    /\ UNCHANGED <<args, ready, phase, got, aborting, queues, ranks, decodeMap>>

(* Mutant: the event is cleared when the replies have been yielded. *)
YieldAndClear(u) ==
    /\ phase[u] = "waiting" /\ taken[u] # <<>>
    /\ got' = [got EXCEPT ![u] = @ \o Positions(Head(taken[u]).from, Head(taken[u]).to)]
    /\ taken' = [taken EXCEPT ![u] = Tail(@)]
    /\ phase' = [phase EXCEPT ![u] = IF Head(taken[u]).finished THEN "done" ELSE @]
    /\ event' = IF Len(taken[u]) = 1 THEN event \ {u} ELSE event
    /\ UNCHANGED <<args, ready, ackMap, aborting, queues, ranks, decodeMap>>

(* One reply is yielded.  The consumer leaves at the finished one, before   *)
(* wait_for_ack deletes the entries.                                        *)
Yield(u) ==
    /\ phase[u] = "waiting" /\ taken[u] # <<>>
    /\ got' = [got EXCEPT ![u] = @ \o Positions(Head(taken[u]).from, Head(taken[u]).to)]
    /\ taken' = [taken EXCEPT ![u] = Tail(@)]
    /\ phase' = [phase EXCEPT ![u] = IF Head(taken[u]).finished THEN "done" ELSE @]
    /\ UNCHANGED <<args, ready, ackMap, event, aborting, queues, ranks, decodeMap>>

(* stream_with_cancellation: the stream ends, and abort_user is scheduled.  *)
Disconnect(u) ==
    /\ phase[u] = "waiting" /\ u \in Streaming
    /\ phase' = [phase EXCEPT ![u] = "gone"]
    /\ taken' = [taken EXCEPT ![u] = <<>>]
    /\ aborting' = aborting \cup {u}
    /\ UNCHANGED <<args, ready, ackMap, event, got, queues, ranks, decodeMap>>

(* abort_user, when it has slept. *)
AbortUser(u) ==
    /\ u \in aborting
    /\ aborting' = aborting \ {u}
    /\ ackMap' = [v \in DOMAIN ackMap \ {u} |-> ackMap[v]]
    /\ event' = event \ {u}
    /\ SendOne(AbortMsg(u))
    /\ UNCHANGED <<args, ready, phase, taken, got, toBackend, counts, pub,
                   toDetokenizer, toFrontend, ranks, decodeMap>>
-----------------------------------------------------------------------------
(* Tokenizer workers: one message per turn (local_bs is 1) *)

Tokenize(t) ==
    /\ toTokenizer[t] # <<>>
    /\ toBackend' = [toBackend EXCEPT ![t] = Append(@, Head(toTokenizer[t]))]
    /\ toTokenizer' = [toTokenizer EXCEPT ![t] = Tail(@)]
    /\ UNCHANGED <<args, ready, frontend, counts, pub, toDetokenizer, toFrontend, ranks,
                   decodeMap>>
-----------------------------------------------------------------------------
(* Scheduler ranks: overlap_loop *)

(* Mutant: a prompt that is too long is added. *)
ProcessOneMsgUnchecked(requests, msg) ==
    CASE msg.type = "user"  -> Put(requests, msg.uid, 0)
      [] msg.type = "abort" -> [u \in DOMAIN requests \ {msg.uid} |-> requests[u]]

(* _process_one_msg.  An abort of an unknown request is ignored.            *)
ProcessOneMsg(requests, msg) ==
    CASE msg.type = "user" /\ msg.uid \in tooLong -> requests
      [] msg.type = "user" /\ msg.uid \notin tooLong -> Put(requests, msg.uid, 0)
      [] msg.type = "abort" -> [u \in DOMAIN requests \ {msg.uid} |-> requests[u]]

(* The messages are handled one after the other, in the order received.     *)
Processed(requests, msgs) ==
    LET after[i \in 0 .. Len(msgs)] ==
            IF i = 0 THEN requests ELSE ProcessOneMsg(after[i - 1], msgs[i])
    IN  after[Len(msgs)]

(* Prefill goes first.  A verify round leaves out what is in flight; a      *)
(* decode takes it along while the token in flight leaves it room.          *)
Pending(requests, results) ==
    {u \in DOMAIN requests : requests[u] = 0 /\ u \notin DOMAIN results}
InFlight(results, u) == IF u \in DOMAIN results THEN 1 ELSE 0
CanDecode(requests, results, u) == requests[u] + InFlight(results, u) < OutLen[u]
Running(requests, results) ==
    {u \in DOMAIN requests :
        /\ requests[u] > 0
        /\ IF speculating THEN u \notin DOMAIN results
           ELSE u \in EosEnds \/ CanDecode(requests, results, u)}

(* process: each request gets its tokens, up to its end; what was computed  *)
(* for a request that is not there any more is skipped.                     *)
NextLen(requests, results, u) == Lesser(requests[u] + results[u], OutLen[u])

(* A decode that follows renews inflight_uids[1].  A prefill (launched has  *)
(* the batch that this iteration launched) does not: it still names the     *)
(* decode whose results are read, and max_tokens is taken to be one token   *)
(* away.  Nothing decodes such a request again, and it stays.               *)
Stale(requests, launched, u) ==
    ~speculating /\ requests[u] > 0 /\ \E v \in launched : requests[v] = 0

Finished(requests, results, launched, u) ==
    /\ NextLen(requests, results, u) = OutLen[u]
    /\ u \in EosEnds \/ ~Stale(requests, launched, u)

Reply(requests, results, launched) ==
    {[uid      |-> u,
      from     |-> requests[u] + 1,
      to       |-> NextLen(requests, results, u),
      finished |-> Finished(requests, results, launched, u)] :
        u \in DOMAIN results \cap DOMAIN requests}

Settled(requests, results, launched) ==
    LET reply == Reply(requests, results, launched)
        ended == {a.uid : a \in {a \in reply : a.finished}}
    IN  [u \in DOMAIN requests \ ended |->
            IF u \in DOMAIN results THEN NextLen(requests, results, u) ELSE requests[u]]

(* send_result: rank 0 alone replies, if there is anything to say.          *)
SendResult(reply) ==
    toDetokenizer' = IF reply = {} THEN toDetokenizer ELSE Append(toDetokenizer, reply)

(* What rank r does when it has received msgs: it handles them and picks a  *)
(* batch; without one it goes on to the results of the previous iteration.  *)
Receive(r, msgs) ==
    LET requests == Processed(live[r], msgs)
        prefill  == Pending(requests, last[r])
        decode   == Running(requests, last[r])
    IN  IF prefill \cup decode = {}
        THEN /\ live' = [live EXCEPT ![r] = Settled(requests, last[r], {})]
             /\ last' = [last EXCEPT ![r] = <<>>]
             /\ IF r = 0 THEN SendResult(Reply(requests, last[r], {}))
                ELSE UNCHANGED toDetokenizer
             /\ UNCHANGED <<pc, batch>>
        ELSE /\ live' = [live EXCEPT ![r] = requests]
             /\ batch' = [batch EXCEPT ![r] = IF prefill # {} THEN prefill ELSE decode]
             /\ pc' = [pc EXCEPT ![r] =
                         IF prefill = {} /\ speculating THEN "step" ELSE "forward"]
             /\ UNCHANGED <<last, toDetokenizer>>

(* Mutant: the message that ended the wait is not counted. *)
BroadcastUncounted(msgs) ==
    /\ counts' = [r \in Rank |-> IF r \in Others
                    THEN Append(counts[r], IF Len(msgs) > 1 THEN Len(msgs) - 1 ELSE Len(msgs))
                    ELSE counts[r]]
    /\ pub' = [r \in Rank |-> IF r \in Others THEN pub[r] \o msgs ELSE pub[r]]

(* Publishing to the other ranks: the number of messages, then each one.    *)
Broadcast(msgs) ==
    /\ counts' = [r \in Rank |-> IF r \in Others THEN Append(counts[r], Len(msgs)) ELSE counts[r]]
    /\ pub' = [r \in Rank |-> IF r \in Others THEN pub[r] \o msgs ELSE pub[r]]

MayBroadcast == \A r \in Others : Len(counts[r]) < MaxCounts

(* Rank 0 takes one message off its socket. *)
Drain(t) ==
    /\ pc[0] = "recv" /\ "scheduler" \in ready
    /\ toBackend[t] # <<>>
    /\ raw' = Append(raw, Head(toBackend[t]))
    /\ toBackend' = [toBackend EXCEPT ![t] = Tail(@)]
    /\ UNCHANGED <<args, ready, frontend, toTokenizer, counts, pub, toDetokenizer, toFrontend,
                   pc, live, batch, last, decodeMap>>

(* Nothing to do: alone, rank 0 blocks on the socket; with other ranks it   *)
(* polls for a while only, and tells them of no message.                    *)
Blocking == live[0] = <<>> /\ last[0] = <<>>

ReceiveRank0 ==
    /\ pc[0] = "recv" /\ "scheduler" \in ready
    /\ \A t \in Tokenizer : toBackend[t] = <<>>
    /\ Blocking /\ size = 1 => raw # <<>>
    /\ MayBroadcast
    /\ Receive(0, raw)
    /\ Broadcast(raw)
    /\ raw' = <<>>
    /\ UNCHANGED <<args, ready, frontend, toTokenizer, toBackend, toFrontend, decodeMap>>

(* _recv_msg_multi_rank1: the count, then so many messages. *)
Take(r, n) ==
    /\ Len(pub[r]) >= n
    /\ counts' = [counts EXCEPT ![r] = Tail(@)]
    /\ pub' = [pub EXCEPT ![r] = SubSeq(@, n + 1, Len(@))]

ReceiveRank1(r) ==
    /\ pc[r] = "recv" /\ r # 0 /\ counts[r] # <<>>
    /\ Take(r, Head(counts[r]))
    /\ Receive(r, SubSeq(pub[r], 1, Head(counts[r])))
    /\ UNCHANGED <<args, ready, frontend, toTokenizer, toBackend, toFrontend, raw, decodeMap>>

(* client.step: rank 0 has the drafts from the speculator, with             *)
(* probabilities or without, and passes them on.                            *)
Draft(us) == [type |-> "draft", uids |-> us]
Probs     == [type |-> "probs"]

StepRank0 ==
    /\ pc[0] = "step"
    /\ MayBroadcast
    /\ \E probs \in {<<>>, <<Probs>>} : Broadcast(<<Draft(batch[0])>> \o probs)
    /\ pc' = [pc EXCEPT ![0] = "forward"]
    /\ UNCHANGED <<args, ready, frontend, toTokenizer, toBackend, toDetokenizer, toFrontend,
                   raw, live, batch, last, decodeMap>>

StepRank1(r) ==
    /\ pc[r] = "step" /\ r # 0 /\ counts[r] # <<>>
    /\ Assert(Head(counts[r]) \in {1, 2}, "bad draft broadcast count")
    /\ Take(r, Head(counts[r]))
    /\ Assert(Head(pub[r]) = Draft(batch[r]), "a draft for every request of the batch")
    /\ pc' = [pc EXCEPT ![r] = "forward"]
    /\ UNCHANGED <<args, ready, frontend, toTokenizer, toBackend, toDetokenizer, toFrontend,
                   raw, live, batch, last, decodeMap>>

(* The forward pass, with every rank, and the results of the previous one.  *)
(* A verify round commits several tokens of a request.                      *)
Forward ==
    /\ \A r \in Group : pc[r] = "forward"
    /\ \E n \in [batch[0] -> 1 .. MaxStep] :
          /\ \A u \in batch[0] : ~speculating \/ live[0][u] = 0 => n[u] = 1
          /\ last' = [r \in Rank |-> IF r \in Group THEN n ELSE last[r]]
    /\ live' = [r \in Rank |-> IF r \in Group THEN Settled(live[r], last[r], batch[r])
                               ELSE live[r]]
    /\ SendResult(Reply(live[0], last[0], batch[0]))
    /\ batch' = [r \in Rank |-> IF r \in Group THEN {} ELSE batch[r]]
    /\ pc' = [r \in Rank |-> IF r \in Group THEN "recv" ELSE pc[r]]
    /\ UNCHANGED <<args, ready, frontend, toTokenizer, toBackend, counts, pub, toFrontend,
                   raw, decodeMap>>
-----------------------------------------------------------------------------
(* Detokenizer *)

(* Of the text of the tokens behind the first e (prefix_end), n tokens in   *)
(* all, what can be shown: all of it when it is whole.  When it ends inside *)
(* a character, _find_printable_text shows the characters before it if they *)
(* end with a CJK one, else whole words.                                    *)
Shown(u, e, n) ==
    LET first == Complete[u][e]
        end   == Complete[u][n]
    IN  IF n \notin PartialAt[u] \/ (end > first /\ Kind[u][end] = "cjk") THEN end
        ELSE Max({first} \cup {c \in first + 1 .. end : Kind[u][c] = "space"})

(* DecodeStatus: prefix_end, len(decoded_ids), partial_sent.  prefix_begin, *)
(* the previous prefix_end, gives decoding its context only.                *)
Before(u) ==
    IF u \in DOMAIN decodeMap THEN decodeMap[u] ELSE [end |-> 0, decoded |-> 0, sent |-> 0]

Decoded(msg) == Before(msg.uid).decoded + msg.to - msg.from + 1

(* new_text[partial_sent:] of what can be shown, which may be shorter than  *)
(* partial_sent.                                                            *)
Increment(msg) ==
    LET s == Before(msg.uid) IN
    [uid      |-> msg.uid,
     from     |-> Complete[msg.uid][s.end] + s.sent + 1,
     to       |-> Shown(msg.uid, s.end, Decoded(msg)),
     finished |-> msg.finished]

(* Text that is not empty and whole is done with; else partial_sent is the  *)
(* length of what could be shown.                                           *)
After(msg) ==
    LET u == msg.uid
        s == Before(u)
        n == Decoded(msg)
    IN  IF n \notin PartialAt[u] /\ Complete[u][n] > Complete[u][s.end]
        THEN [end |-> n, decoded |-> n, sent |-> 0]
        ELSE [end |-> s.end, decoded |-> n, sent |-> Shown(u, s.end, n) - Complete[u][s.end]]

Detokenize ==
    /\ toDetokenizer # <<>> /\ "detokenizer" \in ready
    /\ LET msgs == Head(toDetokenizer)
           of(u) == CHOOSE msg \in msgs : msg.uid = u
           us   == {msg.uid : msg \in msgs}
           ends == {msg.uid : msg \in {msg \in msgs : msg.finished}}
       IN  /\ decodeMap' = [u \in (DOMAIN decodeMap \cup us) \ ends |->
                              IF u \in us THEN After(of(u)) ELSE decodeMap[u]]
           /\ toFrontend' = Append(toFrontend, {Increment(msg) : msg \in msgs})
    /\ toDetokenizer' = Tail(toDetokenizer)
    /\ UNCHANGED <<args, ready, frontend, toTokenizer, toBackend, counts, pub, ranks>>
-----------------------------------------------------------------------------
(* Specification *)

Clients == \E u \in Client : NewUser(u) \/ Disconnect(u)

Frontend == Listen \/ \E u \in Client : Wake(u) \/ Yield(u) \/ AbortUser(u)

Workers == Detokenize \/ \E t \in Tokenizer : Tokenize(t)

RankStep(r) ==
    \/ r = 0 /\ (ReceiveRank0 \/ StepRank0 \/ \E t \in Tokenizer : Drain(t))
    \/ ReceiveRank1(r) \/ StepRank1(r)

(* Alone, rank 0 sleeps on its socket when everyone has been served.        *)
Quiet ==
    /\ size = 1 /\ pc[0] = "recv" /\ Blocking /\ raw = <<>>
    /\ toDetokenizer = <<>> /\ toFrontend = <<>> /\ event = {} /\ aborting = {}
    /\ \A t \in Tokenizer : toTokenizer[t] = <<>> /\ toBackend[t] = <<>>
    /\ \A u \in Client : phase[u] # "new"

Idle ==
    /\ Quiet
    /\ UNCHANGED vars

Next ==
    \/ Clients \/ Frontend \/ Workers \/ Forward \/ Idle
    \/ \E p \in Process : Start(p)
    \/ \E r \in Rank : RankStep(r)

Spec == Init /\ [][Next]_vars

(* Every task and process goes on while it has something to do.             *)
FairSpec ==
    /\ Spec
    /\ WF_vars(Frontend \/ Workers)
    /\ WF_vars(Forward)
    /\ \A r \in Rank : WF_vars(RankStep(r))
-----------------------------------------------------------------------------
(* Properties *)

(* Types, which tables may know a request, and how far each has come.       *)
TypeOK ==
    /\ phase \in [Client -> {"new", "waiting", "done", "gone"}]
    /\ DOMAIN ackMap \subseteq {u \in Client : phase[u] # "new"}
    /\ event \subseteq DOMAIN ackMap
    /\ \A u \in Client : taken[u] # <<>> => u \in DOMAIN ackMap
    /\ aborting \subseteq {u \in Client : phase[u] = "gone"}
    /\ pc \in [Rank -> {"recv", "step", "forward"}]
    /\ \A r \in Rank : DOMAIN live[r] \subseteq Client \ tooLong
    /\ \A r \in Rank : \A u \in DOMAIN live[r] : live[r][u] <= OutLen[u]
    /\ \A u \in DOMAIN decodeMap :
          LET s == decodeMap[u] IN
          /\ s.end <= s.decoded /\ s.decoded <= OutLen[u]
          /\ Complete[u][s.end] + s.sent <= Complete[u][s.decoded]
    /\ \A r \in Rank : Len(counts[r]) <= MaxCounts

(* No character comes before the one that it follows in the text. *)
NoGap(u) == \A i \in 1 .. Len(got[u]) :
    got[u][i] > 1 => \E j \in 1 .. i - 1 : got[u][j] = got[u][i] - 1

(* Texts of which what can be shown never shrinks: no CJK character at the  *)
(* end of the shown part is followed by others that have to wait.           *)
RepeatFree(u) ==
    \A m \in PartialAt[u] : \A e \in 0 .. m, n \in m .. OutLen[u] :
        Shown(u, e, m) <= Shown(u, e, n)

(* What is never sent: a text that ends inside a character ends, for the    *)
(* client, with the last whole word or CJK character.                       *)
HeldBack(u, c) ==
    /\ OutLen[u] \in PartialAt[u]
    /\ Kind[u][TextLen(u)] # "cjk" /\ \A k \in c .. TextLen(u) : Kind[u][k] # "space"

AllReceived(u) == \A c \in 1 .. TextLen(u) : c \in Range(got[u]) \/ HeldBack(u, c)

(* A client receives the text of its own request from the start and without *)
(* a gap, whatever was batched, held back, or aborted beside it, and no     *)
(* character twice unless what can be shown shrinks; and when its stream    *)
(* ends it has everything but what is held back                             *)
(* (api_server.py:116-158, tokenizer.py:43-84).                             *)
StreamUnbroken ==
    \A u \in Client :
        /\ NoGap(u)
        /\ got[u] = Positions(1, Len(got[u])) \/ ~RepeatFree(u)
        /\ phase[u] = "done" => AllReceived(u)

(* What a test says of the detokenizer: the increments, one after the other,*)
(* are the text (test_mtp_detokenize.py:4-6).  It does not hold: a          *)
(* partial_sent that shrinks sends text again (tokenizer.py:77-80).         *)
NothingTwice == \A u \in Client : IsInjective(got[u])

(* Every rank takes part in the same collective: a rank that has taken all  *)
(* broadcasts is where rank 0 is, with the same batch and no message over   *)
(* (io.py:107-140, 153-190).                                                *)
RanksAgree ==
    \A r \in Others :
        counts[r] = <<>> =>
            /\ pub[r] = <<>>
            /\ "forward" \in {pc[0], pc[r]} => pc[r] = pc[0] /\ batch[r] = batch[0]

(* Every client that stays connected and whose prompt fits is answered to   *)
(* the end (api_server.py:134-150); without a speculator, one that max_tokens*)
(* ends may wait for the finished reply for ever (ar.py:102), but receives  *)
(* its whole text.                                                          *)
EveryClientAnswered ==
    \A u \in Client :
        phase[u] = "waiting" /\ u \notin tooLong ~>
            \/ phase[u] \in {"done", "gone"}
            \/ ~speculating /\ u \notin EosEnds /\ AllReceived(u)
=============================================================================
