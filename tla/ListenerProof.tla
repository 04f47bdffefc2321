--------------------------- MODULE ListenerProof ---------------------------
(***************************************************************************)
(* Proofs about module Listener, for every number of servers, clients,     *)
(* workers and descriptors.                                                *)
(*                                                                         *)
(* The induction rests on who answers for a descriptor: a socket belongs   *)
(* to the coroutine that is preparing it or is the one the servers share,  *)
(* and a connection is in the hands (InHand) of exactly one server or      *)
(* processor.                                                              *)
(***************************************************************************)
EXTENDS Listener, FiniteSetTheorems, WellFoundedInduction, TLAPS

\* The values the variables take.
Types ==
    /\ desc \in [Fds -> {"free", "socket", "listener", "conn"}]
    /\ nonblock \subseteq Fds
    /\ peer \in [Fds -> Clients \cup {NONE}]
    /\ backlog \in Seq(Clients)
    /\ client \in [Clients -> {"new", "queued", "accepted", "closed", "refused"}]
    /\ listenfd \in Fds \cup {NONE}
    /\ pc \in [Servers -> {"start", "socket", "nonblock", "serve", "called",
                           "watching", "done", "end"}]
    /\ ret \in [Servers -> Int]
    /\ watch \in [Servers -> Workers \cup {NONE}]
    /\ pending \in [Workers -> SUBSET Servers]
    /\ held \subseteq Fds

\* One coroutine at a time prepares a socket. There is one listening socket
\* at a time: that coroutine's, about to be made nonblocking, or the servers'.
Prepared ==
    /\ \A c \in Servers : pc[c] = "socket" =>
         ret[c] \in Fds /\ desc[ret[c]] = "socket"
    /\ \A c \in Servers : pc[c] = "nonblock" =>
         /\ ret[c] \in Fds
         /\ desc[ret[c]] = "listener"
         /\ listenfd = NONE
    /\ \A c, d \in Preparing : c = d
    /\ \A f \in Fds : desc[f] = "socket" =>
         \E c \in Servers : pc[c] = "socket" /\ ret[c] = f
    /\ \A f \in Fds : desc[f] = "listener" =>
         \/ f = listenfd
         \/ \E c \in Servers : pc[c] = "nonblock" /\ ret[c] = f
    /\ listenfd # NONE => desc[listenfd] = "listener"

\* Nobody accepts, and no event is on the way, before there is a socket.
Watched ==
    /\ \A c \in Servers :
         pc[c] \in {"serve", "called", "watching", "done"} => listenfd # NONE
    /\ \A c \in Servers : watch[c] # NONE => pc[c] = "watching"
    /\ \A w \in Workers : pending[w] # {} => listenfd # NONE

\* The connections some coroutine answers for.
InHand == held \cup {ret[c] : c \in Fresh}

\* Every open connection is in the hands of one coroutine.
Connections ==
    /\ \A f \in Fds : desc[f] = "conn" <=> f \in InHand
    /\ \A c \in Fresh : ret[c] \notin held
    /\ \A c, d \in Fresh : ret[c] = ret[d] => c = d

\* The two ends of the connections belong together, and nothing else has one.
Peers ==
    /\ \A f \in Fds : f \notin InHand => peer[f] = NONE
    /\ \A f \in InHand : peer[f] \in Clients /\ client[peer[f]] = "accepted"
    /\ \A f, g \in InHand : peer[f] = peer[g] => f = g
    /\ \A k \in Clients : client[k] = "accepted" => \E f \in InHand : peer[f] = k

\* The queue of listen() holds each waiting client once.
Queue ==
    /\ IsInjective(backlog)
    /\ Range(backlog) = {k \in Clients : client[k] = "queued"}

\* The inductive invariant.
ListenInv == Types /\ Prepared /\ Watched /\ Connections /\ Peers /\ Queue

-----------------------------------------------------------------------------
(* Data *)

\* A well-founded relation has minimal elements.
LEMMA MinimalIn ==
    ASSUME NEW R, IsWellFoundedOn(R, Nat), NEW T \in SUBSET Nat, T # {}
    PROVE  \E n \in T : \A m \in T : ~ (<<m, n>> \in R)
BY WFMin

\* The same for a relation that contains <.
LEMMA LeastOf ==
    ASSUME NEW R, IsWellFoundedOn(R, Nat),
           \A m, n \in Nat : m < n => <<m, n>> \in R,
           NEW T \in SUBSET Nat, T # {}
    PROVE  \E n \in T : \A m \in T : n <= m
<1>0. T \subseteq Nat
  OBVIOUS
<1>1. PICK n \in T : \A m \in T : ~ (<<m, n>> \in R)
  BY MinimalIn, Zenon
<1>2. ASSUME NEW m \in T
      PROVE  n <= m
  <2>1. ~ (m < n)
    BY <1>0, <1>1, Zenon
  <2> QED
    BY <1>0, <2>1
<1> QED
  BY <1>2

\* A nonempty set of naturals has a least element, which is what Min chooses.
LEMMA LeastNat ==
    \A T \in SUBSET Nat : T # {} => \E n \in T : \A m \in T : n <= m
<1> DEFINE R == OpToRel(<, Nat)
<1>1. IsWellFoundedOn(R, Nat)
  BY NatLessThanWellFounded
<1>2. \A m, n \in Nat : m < n => <<m, n>> \in R
  BY DEF OpToRel
<1> HIDE DEF R
<1> QED
  BY <1>1, <1>2, LeastOf

\* What appending does to a sequence's elements.
LEMMA AppendFacts ==
    ASSUME NEW S, NEW s \in Seq(S), NEW x \in S
    PROVE  /\ Append(s, x) \in Seq(S)
           /\ Len(Append(s, x)) = Len(s) + 1
           /\ Range(Append(s, x)) = Range(s) \cup {x}
           /\ IsInjective(s) /\ x \notin Range(s) => IsInjective(Append(s, x))
<1> DEFINE a == Append(s, x)
<1>1. /\ a \in Seq(S)
      /\ DOMAIN a = 1 .. Len(s) + 1
      /\ DOMAIN s = 1 .. Len(s)
      /\ Len(s) \in Nat
      /\ Len(a) = Len(s) + 1
      /\ \A i \in 1 .. Len(s) : a[i] = s[i]
      /\ a[Len(s) + 1] = x
  OBVIOUS
<1>2. Range(a) = Range(s) \cup {x}
  BY <1>1 DEF Range
<1>3. ASSUME IsInjective(s), x \notin Range(s)
      PROVE  IsInjective(a)
  BY <1>1, <1>3 DEF Range, IsInjective
<1> QED
  BY <1>1, <1>2, <1>3

\* What removing the first element does to a sequence's elements.
LEMMA TailFacts ==
    ASSUME NEW S, NEW s \in Seq(S), s # <<>>
    PROVE  /\ Tail(s) \in Seq(S)
           /\ Len(s) \in Nat \ {0}
           /\ Len(Tail(s)) = Len(s) - 1
           /\ Head(s) \in S
           /\ Head(s) \in Range(s)
           /\ IsInjective(s) => /\ Range(Tail(s)) = Range(s) \ {Head(s)}
                               /\ IsInjective(Tail(s))
<1> DEFINE r == Tail(s)
<1>1. /\ r \in Seq(S)
      /\ Len(s) \in Nat \ {0}
      /\ Len(r) = Len(s) - 1
      /\ DOMAIN s = 1 .. Len(s)
      /\ DOMAIN r = 1 .. Len(s) - 1
      /\ Head(s) = s[1]
      /\ \A i \in 1 .. Len(s) - 1 : r[i] = s[i + 1]
  OBVIOUS
<1>2. Head(s) \in S /\ Head(s) \in Range(s)
  BY <1>1 DEF Range
<1>3. ASSUME IsInjective(s)
      PROVE  Range(r) = Range(s) \ {Head(s)}
  <2>1. ASSUME NEW i \in 1 .. Len(s) - 1
        PROVE  r[i] \in Range(s) /\ r[i] # Head(s)
    BY <1>1, <1>3 DEF Range, IsInjective
  <2>2. ASSUME NEW i \in 1 .. Len(s), s[i] # Head(s)
        PROVE  s[i] \in Range(r)
    <3>1. i - 1 \in 1 .. Len(s) - 1 /\ r[i - 1] = s[i]
      BY <1>1, <2>2
    <3> QED
      BY <1>1, <3>1 DEF Range
  <2> QED
    BY <1>1, <2>1, <2>2 DEF Range
<1>4. ASSUME IsInjective(s)
      PROVE  IsInjective(r)
  BY <1>1, <1>4 DEF IsInjective
<1> QED
  BY <1>1, <1>2, <1>3, <1>4

-----------------------------------------------------------------------------
(* Facts about actions. *)

\* A new descriptor is one that was free.
LEMMA NewFdFree ==
    ASSUME Free # {}
    PROVE  NewFd \in Fds /\ desc[NewFd] = "free"
<1>1. Free \in SUBSET Nat
  BY ListenerAssumption DEF Free, Fds
<1>2. \E n \in Free : \A m \in Free : n <= m
  BY <1>1, LeastNat
<1>3. NewFd \in Free
  BY <1>2 DEF NewFd, Min
<1> QED
  BY <1>3 DEF Free

\* A step that gives no coroutine a connection and takes none away.
LEMMA SameHands ==
    ASSUME held' = held,
           \A c \in Servers : pc'[c] = "done" /\ ret'[c] \in Fds <=>
                              pc[c] = "done" /\ ret[c] \in Fds,
           \A c \in Servers : pc[c] = "done" => ret'[c] = ret[c]
    PROVE  Fresh' = Fresh /\ InHand' = InHand
<1>1. Fresh' = Fresh
  BY DEF Fresh
<1>2. \A c \in Fresh : ret'[c] = ret[c]
  BY DEF Fresh
<1> QED
  BY <1>1, <1>2 DEF InHand

\* Descriptors differ from NONE.
LEMMA FdFacts == Fds \subseteq Nat /\ NONE \notin Fds
BY ListenerAssumption DEF Fds, NONE

\* A step in which no socket and no connection changes hands.
LEMMA QuietStep ==
    ASSUME ListenInv,
           UNCHANGED <<kernelVars, listenfd, held>>,
           \A c \in Servers : pc'[c] = "socket" <=> pc[c] = "socket",
           \A c \in Servers : pc'[c] = "nonblock" <=> pc[c] = "nonblock",
           \A c \in Preparing : ret'[c] = ret[c],
           \A c \in Servers : pc'[c] = "done" /\ ret'[c] \in Fds <=>
                              pc[c] = "done" /\ ret[c] \in Fds,
           \A c \in Servers : pc[c] = "done" => ret'[c] = ret[c]
    PROVE  Prepared' /\ Connections' /\ Peers' /\ Queue'
<1> USE DEF kernelVars
<1>1. Fresh' = Fresh /\ InHand' = InHand
  BY SameHands
<1>2. \A c \in Fresh : ret'[c] = ret[c]
  BY DEF Fresh
<1>3. Prepared'
  BY DEF ListenInv, Prepared, Preparing
<1>4. Connections'
  <2>1. Connections
    BY DEF ListenInv
  <2>2. /\ \A c \in Fresh' : ret'[c] \notin held'
        /\ \A c, d \in Fresh' : ret'[c] = ret'[d] => c = d
    BY <1>1, <1>2, <2>1 DEF Connections
  <2>3. \A f \in Fds : desc'[f] = "conn" <=> f \in InHand'
    BY <1>1, <2>1 DEF Connections
  <2> QED
    BY <2>2, <2>3 DEF Connections
<1>5. Peers'
  BY <1>1 DEF ListenInv, Peers
<1>6. Queue'
  BY DEF ListenInv, Queue
<1> QED
  BY <1>3, <1>4, <1>5, <1>6

-----------------------------------------------------------------------------
(* The invariant *)

LEMMA InvInit == Init => ListenInv
<1> SUFFICES ASSUME Init
             PROVE  ListenInv
  OBVIOUS
<1> USE FdFacts
<1>1. Types
  <2>1. <<>> \in Seq(Clients) /\ NONE \in Int
    BY DEF NONE
  <2> QED
    BY <2>1 DEF Init, Types
<1>2. Prepared /\ Watched
  BY DEF Init, Prepared, Preparing, Watched
<1>3. Fresh = {} /\ InHand = {}
  BY DEF Init, Fresh, InHand
<1>4. Connections /\ Peers
  BY <1>3 DEF Init, Connections, Peers
<1>5. Queue
  <2>1. IsInjective(<<>>)
    BY DEF IsInjective
  <2>2. Range(<<>>) = {}
    BY DEF Range
  <2> QED
    BY <2>1, <2>2 DEF Init, Queue
<1> QED
  BY <1>1, <1>2, <1>4, <1>5 DEF ListenInv

\* The step of crt_tcp_prepare_sock() that leaves no trace in the kernel.
LEMMA PrepareNoSocketStep ==
    ASSUME ListenInv, NEW c \in Servers, PrepareNoSocket(c)
    PROVE  ListenInv'
<1> USE DEF PrepareNoSocket, Goto, Returns
<1>0. Types /\ CRT_ERR_SOCKET \in Int /\ pc[c] = "start"
  BY DEF ListenInv, CRT_ERR_SOCKET
<1>1. Types'
  BY <1>0 DEF Types, kernelVars
<1>2. Watched'
  BY <1>0 DEF ListenInv, Types, Watched
<1>3. Prepared' /\ Connections' /\ Peers' /\ Queue'
  BY <1>0, QuietStep DEF Types, Preparing
<1> QED
  BY <1>1, <1>2, <1>3 DEF ListenInv

LEMMA JoinStep ==
    ASSUME ListenInv, NEW c \in Servers, Join(c)
    PROVE  ListenInv'
<1> USE DEF Join, Goto
<1>0. Types /\ pc[c] = "start"
  BY DEF ListenInv
<1>1. Types'
  BY <1>0 DEF Types, kernelVars
<1>2. Watched'
  BY <1>0 DEF ListenInv, Types, Watched
<1>3. Prepared' /\ Connections' /\ Peers' /\ Queue'
  BY <1>0, QuietStep DEF Types, Preparing
<1> QED
  BY <1>1, <1>2, <1>3 DEF ListenInv

LEMMA AcceptStep ==
    ASSUME ListenInv, NEW c \in Servers, Accept(c)
    PROVE  ListenInv'
<1> USE DEF Accept, Goto
<1>0. Types /\ pc[c] = "serve"
  BY DEF ListenInv
<1>1. Types'
  BY <1>0 DEF Types, kernelVars
<1>2. Watched'
  BY <1>0 DEF ListenInv, Types, Watched
<1>3. Prepared' /\ Connections' /\ Peers' /\ Queue'
  BY <1>0, QuietStep DEF Types, Preparing
<1> QED
  BY <1>1, <1>2, <1>3 DEF ListenInv

LEMMA DoAcceptStep ==
    ASSUME ListenInv, NEW c \in Servers, NEW w \in Workers, DoAccept(w, c)
    PROVE  ListenInv'
<1> USE DEF DoAccept, Goto
<1>0. Types /\ pc[c] = "called"
  BY DEF ListenInv
<1>1. Types'
  BY <1>0 DEF Types, kernelVars
<1>2. Watched'
  BY <1>0 DEF ListenInv, Types, Watched
<1>3. Prepared' /\ Connections' /\ Peers' /\ Queue'
  BY <1>0, QuietStep DEF Types, Preparing
<1> QED
  BY <1>1, <1>2, <1>3 DEF ListenInv

LEMMA PollStep ==
    ASSUME ListenInv, NEW w \in Workers, Poll(w)
    PROVE  ListenInv'
<1> USE DEF Poll
<1>0. Types
  BY DEF ListenInv
<1>1. Types'
  BY <1>0 DEF Types, kernelVars
<1>2. Watched'
  <2>1. PICK d \in Servers : watch[d] = w
    OBVIOUS
  <2>2. w # NONE
    BY ListenerAssumption
  <2>3. listenfd # NONE
    BY <2>1, <2>2 DEF ListenInv, Watched
  <2> QED
    BY <2>3 DEF ListenInv, Watched
<1>3. Prepared' /\ Connections' /\ Peers' /\ Queue'
  BY <1>0, QuietStep DEF Types, Preparing
<1> QED
  BY <1>1, <1>2, <1>3 DEF ListenInv

\* ev_tcp_accept() without a connection: the queue is empty or the descriptor
\* table full.
LEMMA AcceptFailsStep ==
    ASSUME ListenInv, NEW c \in Servers, NEW w \in Workers,
           AcceptNone(w, c) \/ AcceptFull(w, c)
    PROVE  ListenInv'
<1>0. /\ Types
      /\ pc[c] = "watching"
      /\ pc' = [pc EXCEPT ![c] = "done"]
      /\ ret' = [ret EXCEPT ![c] = -1]
      /\ watch' = [watch EXCEPT ![c] = NONE]
      /\ pending' = [pending EXCEPT ![w] = @ \ {c}]
      /\ UNCHANGED <<kernelVars, listenfd, held>>
  BY DEF ListenInv, AcceptNone, AcceptFull, AcceptEvent, Goto, Returns
<1>1. Types'
  BY <1>0 DEF Types, kernelVars
<1>2. Watched'
  BY <1>0 DEF ListenInv, Types, Watched
<1>3. -1 \notin Fds
  BY FdFacts
<1>4. Prepared' /\ Connections' /\ Peers' /\ Queue'
  BY <1>0, <1>3, QuietStep DEF Types, Preparing
<1> QED
  BY <1>1, <1>2, <1>4 DEF ListenInv

\* A client is queued, or refused.
LEMMA ConnectStep ==
    ASSUME ListenInv, NEW k \in Clients, Connect(k)
    PROVE  ListenInv'
<1> USE DEF Connect
<1>0. /\ Types /\ Queue /\ Peers /\ Connections
      /\ client[k] = "new"
      /\ UNCHANGED <<desc, nonblock, peer, listenfd, pc, ret, err, watch,
                     pending, held>>
  BY DEF ListenInv
<1>1. Fresh' = Fresh /\ InHand' = InHand
  BY <1>0, SameHands
<1>2. Prepared' /\ Watched'
  BY <1>0 DEF ListenInv, Prepared, Preparing, Watched
<1>3. Connections'
  BY <1>0, <1>1 DEF Connections
<1>4. PICK s \in {"queued", "refused"} : client' = [client EXCEPT ![k] = s]
  BY Zenon
<1>5. client \in [Clients -> {"new", "queued", "accepted", "closed", "refused"}]
  BY <1>0 DEF Types
<1>6. \A j \in Clients : client'[j] = "accepted" <=> client[j] = "accepted"
  BY <1>0, <1>4, <1>5
<1>7. Peers'
  BY <1>0, <1>1, <1>6 DEF Peers
<1>8. CASE backlog' = Append(backlog, k) /\ client' = [client EXCEPT ![k] = "queued"]
  <2>1. backlog \in Seq(Clients) /\ k \notin Range(backlog)
    BY <1>0 DEF Types, Queue
  <2>2. /\ backlog' \in Seq(Clients)
        /\ Range(backlog') = Range(backlog) \cup {k}
        /\ IsInjective(backlog')
    BY ONLY <2>1, <1>8, <1>0, AppendFacts DEF Queue
  <2>3. Types'
    BY <1>0, <1>5, <1>8, <2>2 DEF Types
  <2>4. {j \in Clients : client'[j] = "queued"} =
          {j \in Clients : client[j] = "queued"} \cup {k}
    BY <1>5, <1>8
  <2>5. Queue'
    BY <1>0, <2>2, <2>4 DEF Queue
  <2> QED
    BY <1>2, <1>3, <1>7, <2>3, <2>5 DEF ListenInv
<1>9. CASE backlog' = backlog /\ client' = [client EXCEPT ![k] = "refused"]
  <2>1. Types'
    BY <1>0, <1>5, <1>9 DEF Types
  <2>2. {j \in Clients : client'[j] = "queued"} = {j \in Clients : client[j] = "queued"}
    BY <1>0, <1>5, <1>9
  <2>3. Queue'
    BY <1>0, <1>9, <2>2 DEF Queue
  <2> QED
    BY <1>2, <1>3, <1>7, <2>1, <2>3 DEF ListenInv
<1> QED
  BY <1>8, <1>9

LEMMA PrepareSocketStep ==
    ASSUME ListenInv, NEW c \in Servers, Preparing \subseteq {c}, PrepareSocket(c)
    PROVE  ListenInv'
<1>0. /\ Types /\ Prepared /\ Watched /\ Connections /\ Peers /\ Queue
      /\ pc[c] = "start"
      /\ pc' = [pc EXCEPT ![c] = "socket"]
      /\ Free # {}
      /\ desc' = [desc EXCEPT ![NewFd] = "socket"]
      /\ ret' = [ret EXCEPT ![c] = NewFd]
      /\ UNCHANGED <<nonblock, peer, backlog, client, listenfd, watch, pending, held>>
  BY DEF ListenInv, PrepareSocket, Goto
<1>1. PICK n \in Fds : n = NewFd /\ desc[n] = "free"
  BY <1>0, NewFdFree
<1>2. desc' = [desc EXCEPT ![n] = "socket"] /\ ret' = [ret EXCEPT ![c] = n]
  BY <1>0, <1>1
<1>3. Types'
  BY <1>0, <1>1, <1>2, FdFacts DEF Types
<1>4. \A d \in Servers : pc[d] \notin {"socket", "nonblock"}
  BY <1>0 DEF Preparing
<1>5. Prepared'
  BY <1>0, <1>1, <1>2, <1>4 DEF Prepared, Preparing, Types
<1>6. Watched'
  BY <1>0 DEF Watched, Types
<1>7. Fresh' = Fresh /\ InHand' = InHand /\ \A d \in Fresh : ret'[d] = ret[d]
  <2>1. \A d \in Servers : pc'[d] = "done" /\ ret'[d] \in Fds <=>
                           pc[d] = "done" /\ ret[d] \in Fds
    BY <1>0, <1>2 DEF Types
  <2>2. \A d \in Servers : pc[d] = "done" => ret'[d] = ret[d]
    BY <1>0, <1>2 DEF Types
  <2> QED
    BY <1>0, <2>1, <2>2, SameHands DEF Fresh
<1>8. \A f \in Fds : desc'[f] = "conn" <=> desc[f] = "conn"
  BY <1>0, <1>1, <1>2 DEF Types
<1>9. Connections'
  BY <1>0, <1>7, <1>8 DEF Connections
<1>10. Peers' /\ Queue'
  BY <1>0, <1>7 DEF Peers, Queue
<1> QED
  BY <1>3, <1>5, <1>6, <1>9, <1>10 DEF ListenInv

LEMMA PrepareListenStep ==
    ASSUME ListenInv, NEW c \in Servers, PrepareListen(c)
    PROVE  ListenInv'
<1>0. /\ Types /\ Prepared /\ Watched /\ Connections /\ Peers /\ Queue
      /\ pc[c] = "socket"
      /\ pc' = [pc EXCEPT ![c] = "nonblock"]
      /\ Listening = {}
      /\ desc' = [desc EXCEPT ![ret[c]] = "listener"]
      /\ UNCHANGED <<nonblock, peer, backlog, client, listenfd, ret, watch,
                     pending, held>>
  BY DEF ListenInv, PrepareListen, Goto
<1>1. PICK n \in Fds : n = ret[c] /\ desc[n] = "socket"
  BY <1>0 DEF Prepared
<1>2. desc' = [desc EXCEPT ![n] = "listener"]
  BY <1>0, <1>1
<1>3. Types'
  BY <1>0, <1>1, <1>2, FdFacts DEF Types
<1>4. /\ \A f \in Fds : desc[f] # "listener"
      /\ listenfd = NONE
      /\ \A d \in Servers : pc[d] \in {"socket", "nonblock"} => d = c
  BY <1>0 DEF Listening, Types, Prepared, Preparing
<1>5. Prepared'
  BY <1>0, <1>1, <1>2, <1>4 DEF Prepared, Preparing, Types
<1>6. Watched'
  BY <1>0 DEF Watched, Types
<1>7. Fresh' = Fresh /\ InHand' = InHand /\ \A d \in Fresh : ret'[d] = ret[d]
  <2>1. \A d \in Servers : pc'[d] = "done" /\ ret'[d] \in Fds <=>
                           pc[d] = "done" /\ ret[d] \in Fds
    BY <1>0 DEF Types
  <2>2. \A d \in Servers : pc[d] = "done" => ret'[d] = ret[d]
    BY <1>0 DEF Types
  <2> QED
    BY <1>0, <2>1, <2>2, SameHands DEF Fresh
<1>8. \A f \in Fds : desc'[f] = "conn" <=> desc[f] = "conn"
  BY <1>0, <1>1, <1>2 DEF Types
<1>9. Connections'
  BY <1>0, <1>7, <1>8 DEF Connections
<1>10. Peers' /\ Queue'
  BY <1>0, <1>7 DEF Peers, Queue
<1> QED
  BY <1>3, <1>5, <1>6, <1>9, <1>10 DEF ListenInv

LEMMA PrepareDoneStep ==
    ASSUME ListenInv, NEW c \in Servers, PrepareDone(c)
    PROVE  ListenInv'
<1>0. /\ Types /\ Prepared /\ Watched /\ Connections /\ Peers /\ Queue
      /\ pc[c] = "nonblock"
      /\ pc' = [pc EXCEPT ![c] = "serve"]
      /\ nonblock' = nonblock \cup {ret[c]}
      /\ listenfd' = ret[c]
      /\ UNCHANGED <<desc, peer, backlog, client, ret, watch, pending, held>>
  BY DEF ListenInv, PrepareDone, Goto
<1>1. ret[c] \in Fds /\ desc[ret[c]] = "listener" /\ listenfd = NONE
  BY <1>0 DEF Prepared
<1>2. ret[c] # NONE
  BY <1>1, FdFacts
<1>3. Types'
  BY <1>0, <1>1 DEF Types
<1>4. Prepared'
  <2>1. \A d \in Servers : pc'[d] \notin {"socket", "nonblock"}
    BY <1>0 DEF Prepared, Preparing, Types
  <2>2. \A g \in Fds : desc[g] = "listener" => g = ret[c]
    BY <1>0, <1>1, FdFacts DEF Prepared, Preparing
  <2>3. \A g \in Fds : desc[g] # "socket"
    BY <1>0 DEF Prepared, Preparing
  <2> QED
    BY <1>0, <1>1, <2>1, <2>2, <2>3 DEF Prepared, Preparing
<1>5. Watched'
  BY <1>0, <1>2 DEF Watched, Types
<1>6. Fresh' = Fresh /\ InHand' = InHand
  <2>1. \A d \in Servers : pc'[d] = "done" <=> pc[d] = "done"
    BY <1>0 DEF Types
  <2> QED
    BY <1>0, <2>1, SameHands
<1>7. Connections'
  BY <1>0, <1>6 DEF Connections
<1>8. Peers' /\ Queue'
  BY <1>0, <1>6 DEF Peers, Queue
<1> QED
  BY <1>3, <1>4, <1>5, <1>7, <1>8 DEF ListenInv

LEMMA PrepareFailsStep ==
    ASSUME ListenInv, NEW c \in Servers, NEW code \in PrepareErrors,
           PrepareFails(c, code)
    PROVE  ListenInv'
<1>0. /\ Types /\ Prepared /\ Watched /\ Connections /\ Peers /\ Queue
      /\ pc[c] = "socket"
      /\ pc' = [pc EXCEPT ![c] = "end"]
      /\ Close(ret[c])
      /\ ret' = [ret EXCEPT ![c] = code]
      /\ UNCHANGED <<listenfd, watch, pending, held>>
  BY DEF ListenInv, PrepareFails, Goto, Returns
<1>1. PICK f \in Fds : f = ret[c] /\ desc[f] = "socket"
  BY <1>0 DEF Prepared
<1>2. f \notin InHand /\ peer[f] = NONE
  BY <1>0, <1>1 DEF Connections, Peers
<1>3. /\ desc' = [desc EXCEPT ![f] = "free"]
      /\ nonblock' = nonblock \ {f}
      /\ peer' = [peer EXCEPT ![f] = NONE]
      /\ backlog' = backlog
      /\ client' = client
  <2>1. \A k \in Clients : k # peer[f]
    BY <1>2, ListenerAssumption
  <2>2. client' = [k \in Clients |-> client[k]]
    BY <1>0, <1>1, <2>1 DEF Close
  <2> QED
    BY <1>0, <1>1, <2>2 DEF Close, Types
<1>4. Types'
  <2>1. code \in Int
    BY DEF PrepareErrors
  <2> QED
    BY <1>0, <1>3, <2>1 DEF Types
<1>5. Prepared'
  <2>1. \A d \in Servers : pc'[d] \notin {"socket", "nonblock"}
    BY <1>0 DEF Prepared, Preparing, Types
  <2>2. \A g \in Fds : desc[g] = "socket" => g = f
    BY <1>0, <1>1 DEF Prepared, Preparing
  <2>3. \A g \in Fds : desc'[g] # "socket" /\ (desc'[g] = "listener" => g = listenfd)
    BY <1>0, <1>3, <2>2 DEF Prepared, Preparing, Types
  <2>4. listenfd # NONE => desc'[listenfd] = "listener"
    BY <1>0, <1>1, <1>3 DEF Prepared, Types
  <2> QED
    BY <1>0, <2>1, <2>3, <2>4 DEF Prepared, Preparing
<1>6. Watched'
  BY <1>0 DEF Watched, Types
<1>7. Fresh' = Fresh /\ InHand' = InHand /\ \A d \in Fresh : ret'[d] = ret[d]
  <2>1. \A d \in Servers : pc'[d] = "done" /\ ret'[d] \in Fds <=>
                           pc[d] = "done" /\ ret[d] \in Fds
    BY <1>0 DEF Types
  <2>2. \A d \in Servers : pc[d] = "done" => ret'[d] = ret[d]
    BY <1>0 DEF Types
  <2> QED
    BY <1>0, <2>1, <2>2, SameHands DEF Fresh
<1>8. Connections'
  <2>1. \A g \in Fds : desc'[g] = "conn" <=> desc[g] = "conn"
    BY <1>0, <1>1, <1>3 DEF Types
  <2> QED
    BY <1>0, <1>7, <2>1 DEF Connections
<1>9. Peers' /\ Queue'
  <2>1. peer' = peer
    BY <1>0, <1>2, <1>3 DEF Types
  <2> QED
    BY <1>0, <1>3, <1>7, <2>1 DEF Peers, Queue
<1> QED
  BY <1>4, <1>5, <1>6, <1>8, <1>9 DEF ListenInv

LEMMA PrepareUndoneStep ==
    ASSUME ListenInv, NEW c \in Servers, PrepareUndone(c)
    PROVE  ListenInv'
<1>0. /\ Types /\ Prepared /\ Watched /\ Connections /\ Peers /\ Queue
      /\ pc[c] = "nonblock"
      /\ pc' = [pc EXCEPT ![c] = "end"]
      /\ Close(ret[c])
      /\ ret' = [ret EXCEPT ![c] = CRT_ERR_SET_NONBLOCK]
      /\ UNCHANGED <<listenfd, watch, pending, held>>
  BY DEF ListenInv, PrepareUndone, Goto, Returns
<1>1. PICK f \in Fds : f = ret[c] /\ desc[f] = "listener" /\ listenfd = NONE
  BY <1>0 DEF Prepared
<1>2. /\ desc' = [desc EXCEPT ![f] = "free"]
      /\ nonblock' = nonblock \ {f}
      /\ peer' = [peer EXCEPT ![f] = NONE]
      /\ backlog' = <<>>
      /\ client' = [k \in Clients |-> IF k \in Range(backlog) THEN "refused" ELSE client[k]]
  BY <1>0, <1>1 DEF Close
<1>3. Types'
  <2>1. <<>> \in Seq(Clients) /\ CRT_ERR_SET_NONBLOCK \in Int
    BY DEF CRT_ERR_SET_NONBLOCK
  <2> QED
    BY <1>0, <1>2, <2>1 DEF Types
<1>4. Prepared'
  <2>1. \A d \in Servers : pc'[d] \notin {"socket", "nonblock"}
    BY <1>0 DEF Prepared, Preparing, Types
  <2>2. \A g \in Fds : desc[g] = "listener" => g = f
    BY <1>0, <1>1, FdFacts DEF Prepared, Preparing
  <2>3. \A g \in Fds : desc'[g] \notin {"socket", "listener"}
    BY <1>0, <1>2, <2>2 DEF Prepared, Preparing, Types
  <2> QED
    BY <1>0, <1>1, <2>1, <2>3 DEF Prepared, Preparing
<1>5. Watched'
  BY <1>0 DEF Watched, Types
<1>6. Fresh' = Fresh /\ InHand' = InHand /\ \A d \in Fresh : ret'[d] = ret[d]
  <2>1. \A d \in Servers : pc'[d] = "done" /\ ret'[d] \in Fds <=>
                           pc[d] = "done" /\ ret[d] \in Fds
    BY <1>0 DEF Types
  <2>2. \A d \in Servers : pc[d] = "done" => ret'[d] = ret[d]
    BY <1>0 DEF Types
  <2> QED
    BY <1>0, <2>1, <2>2, SameHands DEF Fresh
<1>7. f \notin InHand
  BY <1>0, <1>1 DEF Connections
<1>8. Connections'
  <2>1. \A g \in Fds : desc'[g] = "conn" <=> desc[g] = "conn"
    BY <1>0, <1>1, <1>2 DEF Types
  <2> QED
    BY <1>0, <1>2, <1>6, <1>7, <2>1 DEF Connections
<1>9. Peers'
  <2>1. InHand \subseteq Fds
    BY <1>0 DEF InHand, Fresh, Types
  <2>2. \A g \in Fds : peer'[g] = peer[g]
    BY <1>0, <1>1, <1>2, <1>7 DEF Types, Peers
  <2>3. \A k \in Clients : client'[k] = "accepted" <=> client[k] = "accepted"
    BY <1>0, <1>2 DEF Queue
  <2> QED
    BY <1>0, <1>6, <2>1, <2>2, <2>3 DEF Peers
<1>10. Queue'
  <2>1. IsInjective(<<>>) /\ Range(<<>>) = {}
    BY DEF IsInjective, Range
  <2>2. \A k \in Clients : client'[k] # "queued"
    BY <1>0, <1>2 DEF Queue
  <2> QED
    BY <1>2, <2>1, <2>2 DEF Queue
<1> QED
  BY <1>3, <1>4, <1>5, <1>8, <1>9, <1>10 DEF ListenInv

\* ev_tcp_accept() with a connection.
LEMMA AcceptOneStep ==
    ASSUME ListenInv, NEW c \in Servers, NEW w \in Workers, AcceptOne(w, c)
    PROVE  ListenInv'
<1>0. /\ Types /\ Prepared /\ Watched /\ Connections /\ Peers /\ Queue
      /\ pc[c] = "watching"
      /\ pc' = [pc EXCEPT ![c] = "done"]
      /\ watch' = [watch EXCEPT ![c] = NONE]
      /\ pending' = [pending EXCEPT ![w] = @ \ {c}]
      /\ backlog # <<>> /\ Free # {}
      /\ UNCHANGED <<listenfd, held>>
  BY DEF ListenInv, AcceptOne, AcceptEvent, Goto
<1>1. PICK n \in Fds : n = NewFd /\ desc[n] = "free"
  BY <1>0, NewFdFree
<1>2. backlog \in Seq(Clients)
  BY <1>0 DEF Types
<1>3. /\ Tail(backlog) \in Seq(Clients)
      /\ Head(backlog) \in Clients
      /\ Head(backlog) \in Range(backlog)
      /\ Range(Tail(backlog)) = Range(backlog) \ {Head(backlog)}
      /\ IsInjective(Tail(backlog))
  BY ONLY <1>0, <1>2, TailFacts DEF Queue
<1>4. PICK k \in Clients : k = Head(backlog) /\ client[k] = "queued"
  BY <1>0, <1>3 DEF Queue
<1>5. /\ desc' = [desc EXCEPT ![n] = "conn"]
      /\ nonblock' \in {nonblock, nonblock \cup {n}}
      /\ peer' = [peer EXCEPT ![n] = k]
      /\ client' = [client EXCEPT ![k] = "accepted"]
      /\ backlog' = Tail(backlog)
      /\ ret' = [ret EXCEPT ![c] = n]
  BY <1>1, <1>4 DEF AcceptOne, Returns
<1>6. Types'
  BY <1>0, <1>1, <1>3, <1>5, FdFacts DEF Types
<1>7. Prepared'
  BY <1>0, <1>1, <1>5 DEF Prepared, Preparing, Types
<1>8. Watched'
  BY <1>0 DEF Watched, Types
<1>9. n \notin InHand
  BY <1>0, <1>1 DEF Connections
<1>10. Fresh' = Fresh \cup {c} /\ c \notin Fresh /\ \A d \in Fresh : ret'[d] = ret[d]
  BY <1>0, <1>1, <1>5 DEF Fresh, Types
<1>11. InHand' = InHand \cup {n} /\ ret'[c] = n
  <2>1. ret'[c] = n
    BY <1>0, <1>5 DEF Types
  <2> QED
    BY <1>0, <1>10, <2>1 DEF InHand
<1>12. Connections'
  <2>1. \A f \in Fds : desc'[f] = "conn" <=> f \in InHand'
    BY <1>0, <1>5, <1>11 DEF Connections, Types
  <2>3. \A d \in Fresh : ret[d] # n
    BY <1>9 DEF InHand
  <2>4. n \notin held
    BY <1>9 DEF InHand
  <2>5. \A d \in Fresh' : ret'[d] \notin held'
    BY <1>0, <1>10, <1>11, <2>4 DEF Connections
  <2>6. \A d, e \in Fresh' : ret'[d] = ret'[e] => d = e
    BY <1>0, <1>10, <1>11, <2>3 DEF Connections
  <2> QED
    BY <2>1, <2>5, <2>6 DEF Connections
<1>13. Peers'
  <2>1. InHand \subseteq Fds
    BY <1>0 DEF InHand, Fresh, Types
  <2>2. peer'[n] = k /\ \A f \in InHand : peer'[f] = peer[f] /\ peer[f] # k
    BY <1>0, <1>4, <1>5, <1>9, <2>1 DEF Types, Peers
  <2>3. \A j \in Clients : client'[j] = IF j = k THEN "accepted" ELSE client[j]
    BY <1>0, <1>5 DEF Types
  <2>4. \A f \in Fds : f \notin InHand' => peer'[f] = NONE
    BY <1>0, <1>5, <1>11 DEF Types, Peers
  <2> QED
    BY <1>0, <1>4, <1>11, <2>2, <2>3, <2>4 DEF Peers
<1>14. Queue'
  <2>1. {j \in Clients : client'[j] = "queued"} = {j \in Clients : client[j] = "queued"} \ {k}
    BY <1>0, <1>5 DEF Types
  <2> QED
    BY <1>0, <1>3, <1>4, <1>5, <2>1 DEF Queue
<1> QED
  BY <1>6, <1>7, <1>8, <1>12, <1>13, <1>14 DEF ListenInv

LEMMA ServeStep ==
    ASSUME ListenInv, NEW c \in Servers, Serve(c)
    PROVE  ListenInv'
<1>0. /\ Types /\ Prepared /\ Watched /\ Connections /\ Peers /\ Queue
      /\ pc[c] = "done"
      /\ pc' = [pc EXCEPT ![c] = "serve"]
      /\ held' = IF ret[c] \in Fds THEN held \cup {ret[c]} ELSE held
      /\ UNCHANGED <<desc, nonblock, peer, backlog, client, listenfd, ret,
                     watch, pending>>
  BY DEF ListenInv, Serve, Goto, kernelVars
<1>1. Types'
  BY <1>0 DEF Types
<1>2. Prepared' /\ Watched'
  BY <1>0 DEF Prepared, Preparing, Watched, Types
<1>3. Fresh' = Fresh \ {c}
  BY <1>0 DEF Fresh, Types
<1>4. c \in Fresh <=> ret[c] \in Fds
  BY <1>0 DEF Fresh
<1>5. InHand' = InHand
  BY <1>0, <1>3, <1>4 DEF InHand
<1>6. Connections'
  BY <1>0, <1>3, <1>4, <1>5 DEF Connections
<1>7. Peers' /\ Queue'
  BY <1>0, <1>5 DEF Peers, Queue
<1> QED
  BY <1>1, <1>2, <1>6, <1>7 DEF ListenInv

LEMMA CloseConnStep ==
    ASSUME ListenInv, NEW f \in Fds, CloseConn(f)
    PROVE  ListenInv'
<1>0. /\ Types /\ Prepared /\ Watched /\ Connections /\ Peers /\ Queue
      /\ f \in held
      /\ held' = held \ {f}
      /\ Close(f)
      /\ UNCHANGED <<listenfd, pc, ret, watch, pending>>
  BY DEF ListenInv, CloseConn
<1>1. f \in InHand /\ desc[f] = "conn"
  BY <1>0 DEF InHand, Connections
<1>2. PICK k \in Clients : k = peer[f] /\ client[k] = "accepted"
  BY <1>0, <1>1 DEF Peers
<1>3. /\ desc' = [desc EXCEPT ![f] = "free"]
      /\ nonblock' = nonblock \ {f}
      /\ peer' = [peer EXCEPT ![f] = NONE]
      /\ backlog' = backlog
      /\ client' = [j \in Clients |-> IF j = k THEN "closed" ELSE client[j]]
  BY <1>0, <1>1, <1>2 DEF Close
<1>4. Types'
  BY <1>0, <1>3 DEF Types
<1>5. Prepared'
  BY <1>0, <1>1, <1>3 DEF Prepared, Preparing, Types
<1>6. Watched'
  BY <1>0 DEF Watched
<1>7. Fresh' = Fresh
  BY <1>0 DEF Fresh
<1>8. InHand' = InHand \ {f}
  <2>1. \A c \in Fresh : ret[c] # f
    BY <1>0 DEF Connections
  <2> QED
    BY <1>0, <1>7, <2>1 DEF InHand
<1>9. Connections'
  BY <1>0, <1>3, <1>7, <1>8 DEF Connections, Types
<1>10. Peers'
  <2>1. InHand \subseteq Fds
    BY <1>0 DEF InHand, Fresh, Types
  <2>2. \A g \in InHand' : peer'[g] = peer[g] /\ peer[g] # k
    BY <1>0, <1>1, <1>2, <1>3, <1>8, <2>1 DEF Types, Peers
  <2>3. \A g \in Fds : g \notin InHand' => peer'[g] = NONE
    BY <1>0, <1>3, <1>8 DEF Types, Peers
  <2> QED
    BY <1>0, <1>1, <1>2, <1>3, <1>8, <2>2, <2>3 DEF Peers
<1>11. Queue'
  <2>1. {j \in Clients : client'[j] = "queued"} = {j \in Clients : client[j] = "queued"}
    BY <1>2, <1>3
  <2> QED
    BY <1>0, <1>3, <2>1 DEF Queue
<1> QED
  BY <1>4, <1>5, <1>6, <1>9, <1>10, <1>11 DEF ListenInv

LEMMA InvStep == ListenInv /\ [Next]_vars => ListenInv'
<1> SUFFICES ASSUME ListenInv, [Next]_vars
             PROVE  ListenInv'
  OBVIOUS
<1>1. ASSUME NEW k \in Clients, Connect(k)
      PROVE  ListenInv'
  BY <1>1, ConnectStep
<1>2. ASSUME NEW c \in Servers, Server(c)
      PROVE  ListenInv'
  <2>1. CASE PrepareNoSocket(c)
    BY <2>1, PrepareNoSocketStep
  <2>2. CASE PrepareSocket(c)
    BY <1>2, <2>2, PrepareSocketStep DEF Server
  <2>3. ASSUME NEW code \in PrepareErrors, PrepareFails(c, code)
        PROVE  ListenInv'
    BY <2>3, PrepareFailsStep
  <2>4. CASE PrepareListen(c)
    BY <2>4, PrepareListenStep
  <2>5. CASE PrepareDone(c)
    BY <2>5, PrepareDoneStep
  <2>6. CASE PrepareUndone(c)
    BY <2>6, PrepareUndoneStep
  <2>7. CASE Join(c)
    BY <2>7, JoinStep
  <2>8. CASE Accept(c)
    BY <2>8, AcceptStep
  <2>9. CASE Serve(c)
    BY <2>9, ServeStep
  <2> QED
    BY <1>2, <2>1, <2>2, <2>3, <2>4, <2>5, <2>6, <2>7, <2>8, <2>9 DEF Server
<1>3. ASSUME NEW c \in Servers, Start(c)
      PROVE  ListenInv'
  BY <1>3, DoAcceptStep DEF Start
<1>4. ASSUME NEW w \in Workers, Loop(w)
      PROVE  ListenInv'
  <2>1. CASE Poll(w)
    BY <2>1, PollStep
  <2>2. ASSUME NEW c \in Servers, AcceptOne(w, c)
        PROVE  ListenInv'
    BY <2>2, AcceptOneStep
  <2>3. ASSUME NEW c \in Servers, AcceptNone(w, c) \/ AcceptFull(w, c)
        PROVE  ListenInv'
    BY <2>3, AcceptFailsStep
  <2> QED
    BY <1>4, <2>1, <2>2, <2>3 DEF Loop
<1>5. ASSUME NEW f \in Fds, CloseConn(f)
      PROVE  ListenInv'
  BY <1>5, CloseConnStep
<1>6. CASE UNCHANGED vars
  BY <1>6 DEF vars, kernelVars, ListenInv, Types, Prepared, Preparing, Watched,
              Fresh, InHand, Connections, Peers, Queue
<1> QED
  BY <1>1, <1>2, <1>3, <1>4, <1>5, <1>6 DEF Next

-----------------------------------------------------------------------------
(* The theorems *)

\* Every reachable state of the listening socket's life satisfies the
\* invariant: one owner for each socket and each connection.
THEOREM InvHolds == Spec => []ListenInv
<1>1. Init => ListenInv
  BY InvInit
<1>2. ListenInv /\ [Next]_vars => ListenInv'
  BY InvStep
<1> QED
  BY <1>1, <1>2, PTL DEF Spec

\* Whichever step of crt_tcp_prepare_sock() or of ev_tcp_accept() fails, no
\* descriptor is left open that no coroutine answers for.
THEOREM NoDescriptorLeaks == Spec => []NothingLeftOpen
<1>1. ListenInv => NothingLeftOpen
  <2> SUFFICES ASSUME ListenInv, NEW f \in Fds, desc[f] # "free"
               PROVE  \/ f = listenfd
                      \/ f \in held
                      \/ \E c \in Servers : ret[c] = f /\ pc[c] \in {"socket", "nonblock", "done"}
    BY DEF NothingLeftOpen
  <2>1. CASE desc[f] \in {"socket", "listener"}
    BY <2>1 DEF ListenInv, Prepared
  <2>2. CASE desc[f] = "conn"
    BY <2>2 DEF ListenInv, Connections, InHand, Fresh
  <2> QED
    BY <2>1, <2>2 DEF ListenInv, Types
<1> QED
  BY <1>1, InvHolds, PTL

\* Each connection is accepted by one coroutine, once, however many callbacks
\* of however many event loops race for it.
THEOREM ReceivedOnce == Spec => []OneReceiver
<1>1. ListenInv => OneReceiver
  <2> SUFFICES ASSUME ListenInv
               PROVE  OneReceiver
    OBVIOUS
  <2>1. /\ IsInjective(backlog)
        /\ Range(backlog) = {k \in Clients : client[k] = "queued"}
    BY DEF ListenInv, Queue
  <2>2. \A c \in Fresh : ret[c] \notin held /\ desc[ret[c]] = "conn"
    BY DEF ListenInv, Connections, InHand, Fresh
  <2>3. \A c, d \in Fresh : ret[c] = ret[d] => c = d
    BY DEF ListenInv, Connections
  <2>4. ASSUME NEW k \in Clients
        PROVE  Cardinality({f \in InHand : peer[f] = k}) =
                 IF client[k] = "accepted" THEN 1 ELSE 0
    <3>1. CASE client[k] = "accepted"
      <4>1. PICK f \in InHand : {g \in InHand : peer[g] = k} = {f}
        BY <3>1 DEF ListenInv, Peers
      <4> QED
        BY <3>1, <4>1, FS_Singleton
    <3>2. CASE client[k] # "accepted"
      <4>1. {g \in InHand : peer[g] = k} = {}
        BY <3>2 DEF ListenInv, Peers
      <4> QED
        BY <3>2, <4>1, FS_EmptySet
    <3> QED
      BY <3>1, <3>2
  <2> QED
    BY <2>1, <2>2, <2>3, <2>4 DEF OneReceiver, InHand
<1> QED
  BY <1>1, InvHolds, PTL

=============================================================================
