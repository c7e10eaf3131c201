---------------------- MODULE FileTransferWholeProofs ----------------------
(* Proofs about FileTransfer, continued: a download that is called done is *)
(* whole, and nothing is left half written when a client has gone. Both    *)
(* rest on counting: the blocks that the disk, the connections, the buffer *)
(* and the local file hold together are the blocks of the file.            *)
EXTENDS FileTransferProofs, FiniteSetTheorems

USE DEF tc, net, ta, td, ghost

-----------------------------------------------------------------------------
(* The queues.                                                             *)

Count(q, t) == Cardinality({i \in 1 .. Len(q) : q[i].type = t})

ByeLast(q) == \A i \in 1 .. Len(q) - 1 : q[i].type # "bye"
EndLast(q) ==
  \A i \in 1 .. Len(q) - 1 : q[i].type = "end" => q[i + 1].type = "bye"
OnlyBye(q) == \A i \in 1 .. Len(q) : q[i].type = "bye"

LEMMA CountNone ==
  ASSUME NEW q \in Seq(Msg), NEW t
  PROVE  /\ IsFiniteSet({i \in 1 .. Len(q) : q[i].type = t})
         /\ Count(q, t) \in Nat
         /\ Count(q, t) = 0 <=> ~Carries(q, t)
<1> DEFINE S == {i \in 1 .. Len(q) : q[i].type = t}
<1>1. IsFiniteSet(1 .. Len(q)) /\ S \in SUBSET (1 .. Len(q))
  BY FS_Interval
<1>2. IsFiniteSet(S)
  BY <1>1, FS_Subset
<1>3. Cardinality(S) \in Nat /\ (Cardinality(S) = 0 <=> S = {})
  BY <1>2, FS_CardinalityType, FS_EmptySet
<1>4. S = {} <=> ~Carries(q, t)
  BY DEF Carries
<1> QED  BY <1>2, <1>3, <1>4 DEF Count

LEMMA CountSend ==
  ASSUME NEW q \in Seq(Msg), NEW t, NEW m \in Msg
  PROVE  Count(Append(q, m), t) = Count(q, t) + (IF m.type = t THEN 1 ELSE 0)
<1> DEFINE S == {i \in 1 .. Len(q) : q[i].type = t}
           r == Append(q, m)
           T == {i \in 1 .. Len(r) : r[i].type = t}
<1>1. Len(q) \in Nat /\ Len(r) = Len(q) + 1 /\ r[Len(q) + 1] = m
  OBVIOUS
<1>2. \A i \in 1 .. Len(q) : r[i] = q[i]
  OBVIOUS
<1> HIDE DEF r
<1>3. IsFiniteSet(S) /\ Count(q, t) = Cardinality(S) /\ Cardinality(S) \in Nat
  BY CountNone DEF Count
<1>6. Count(r, t) = Cardinality(T)
  BY DEF Count
<1>4. m.type = t => Cardinality(T) = Cardinality(S) + 1
  <2> HAVE m.type = t
  <2>1. T = S \cup {Len(q) + 1} /\ Len(q) + 1 \notin S
    BY <1>1, <1>2
  <2> QED  BY <1>3, <2>1, FS_AddElement
<1>5. m.type # t => T = S
  BY <1>1, <1>2
<1> HIDE DEF S, T
<1>7. Count(r, t) = Count(q, t) + (IF m.type = t THEN 1 ELSE 0)
  BY <1>3, <1>4, <1>5, <1>6
<1> QED  BY <1>7 DEF r

LEMMA CountTake ==
  ASSUME NEW q \in Seq(Msg), NEW t, q # <<>>
  PROVE  Count(q, t) = Count(Tail(q), t) + (IF Head(q).type = t THEN 1 ELSE 0)
<1> DEFINE r == Tail(q)
           S == {i \in 1 .. Len(q) : q[i].type = t}
           T == {i \in 1 .. Len(r) : r[i].type = t}
           U == S \ {1}
           f == [i \in T |-> i + 1]
<1>1. /\ Len(q) \in Nat \ {0} /\ Len(r) = Len(q) - 1 /\ Head(q) = q[1]
      /\ r \in Seq(Msg)
  OBVIOUS
<1>2. \A i \in 1 .. Len(r) : r[i] = q[i + 1]
  OBVIOUS
<1> HIDE DEF r
<1>3. /\ IsFiniteSet(S) /\ Count(q, t) = Cardinality(S) /\ Cardinality(S) \in Nat
      /\ IsFiniteSet(T) /\ Count(r, t) = Cardinality(T) /\ Cardinality(T) \in Nat
  BY <1>1, CountNone DEF Count
<1>4. f \in Bijection(T, U)
  <2>1. \A i \in T : f[i] \in U
    BY <1>1, <1>2
  <2>2. \A i, j \in T : f[i] = f[j] => i = j
    BY <1>1
  <2>3. ASSUME NEW k \in U PROVE \E i \in T : f[i] = k
    <3>1. k - 1 \in 1 .. Len(r) /\ r[k - 1] = q[k]
      BY <1>1, <1>2
    <3> QED  BY <3>1
  <2> QED  BY <2>1, <2>2, <2>3 DEF Bijection, Injection, Surjection, IsInjective
<1>5. Cardinality(U) = Cardinality(T)
  BY <1>3, <1>4, FS_Bijection DEF ExistsBijection
<1>6. Cardinality(U) = IF 1 \in S THEN Cardinality(S) - 1 ELSE Cardinality(S)
  BY <1>3, FS_RemoveElement
<1>7. 1 \in S <=> Head(q).type = t
  BY <1>1
<1>8. Count(q, t) = Count(r, t) + (IF Head(q).type = t THEN 1 ELSE 0)
  BY <1>3, <1>5, <1>6, <1>7
<1> QED  BY <1>8 DEF r
(* The order of the last messages, when one is sent, taken or cut off.     *)
LEMMA LastSend ==
  ASSUME NEW q \in Seq(Msg), NEW m \in Msg
  PROVE  /\ ~Carries(q, "bye") => ByeLast(Append(q, m))
         /\ EndLast(q) /\ ~Carries(q, "end") => EndLast(Append(q, m))
         /\ EndLast(q) /\ m.type = "bye" => EndLast(Append(q, m))
         /\ OnlyBye(q) /\ m.type = "bye" => OnlyBye(Append(q, m))
<1> DEFINE r == Append(q, m)
<1>1. Len(q) \in Nat /\ Len(r) = Len(q) + 1 /\ r[Len(q) + 1] = m
  OBVIOUS
<1>2. \A i \in 1 .. Len(q) : r[i] = q[i]
  OBVIOUS
<1> HIDE DEF r
<1>3. ~Carries(q, "bye") => ByeLast(r)
  BY <1>1, <1>2 DEF Carries, ByeLast
<1>4. EndLast(q) /\ ~Carries(q, "end") => EndLast(r)
  BY <1>1, <1>2 DEF Carries, EndLast
<1>5. ASSUME EndLast(q), m.type = "bye" PROVE EndLast(r)
  <2> SUFFICES ASSUME NEW i \in 1 .. Len(r) - 1, r[i].type = "end"
               PROVE  r[i + 1].type = "bye"
    BY DEF EndLast
  <2>1. CASE i = Len(q)
    BY <1>1, <1>5, <2>1
  <2>2. CASE i # Len(q)
    <3>1. i \in 1 .. Len(q) - 1 /\ i \in 1 .. Len(q) /\ i + 1 \in 1 .. Len(q)
      BY <1>1, <2>2
    <3> QED  BY <1>2, <1>5, <3>1 DEF EndLast
  <2> QED  BY <2>1, <2>2
<1>6. OnlyBye(q) /\ m.type = "bye" => OnlyBye(r)
  BY <1>1, <1>2 DEF OnlyBye
<1> QED  BY <1>3, <1>4, <1>5, <1>6 DEF r

LEMMA LastTake ==
  ASSUME NEW q \in Seq(Msg), q # <<>>
  PROVE  /\ ByeLast(q) => ByeLast(Tail(q))
         /\ ByeLast(q) /\ Head(q).type = "bye" => Tail(q) = <<>>
         /\ EndLast(q) => EndLast(Tail(q))
         /\ EndLast(q) /\ Head(q).type = "end" /\ ByeLast(q) => OnlyBye(Tail(q))
         /\ EndLast(q) /\ Head(q).type = "end" /\ ~Carries(q, "bye")
              => Tail(q) = <<>>
         /\ OnlyBye(q) => Head(q).type = "bye" /\ OnlyBye(Tail(q))
<1> DEFINE r == Tail(q)
<1>1. /\ Len(q) \in Nat \ {0} /\ Len(r) = Len(q) - 1 /\ Head(q) = q[1]
      /\ r \in Seq(Msg) /\ (Len(r) = 0 => r = <<>>)
  OBVIOUS
<1>2. \A i \in 1 .. Len(r) : r[i] = q[i + 1]
  OBVIOUS
<1> HIDE DEF r
<1>3. ASSUME ByeLast(q) PROVE ByeLast(r)
  <2> SUFFICES ASSUME NEW i \in 1 .. Len(r) - 1 PROVE r[i].type # "bye"
    BY DEF ByeLast
  <2>1. r[i] = q[i + 1] /\ i + 1 \in 1 .. Len(q) - 1
    BY <1>1, <1>2
  <2> QED  BY <1>3, <2>1 DEF ByeLast
<1>4. ASSUME ByeLast(q), Head(q).type = "bye" PROVE r = <<>>
  BY <1>1, <1>4 DEF ByeLast
<1>5. ASSUME EndLast(q) PROVE EndLast(r)
  <2> SUFFICES ASSUME NEW i \in 1 .. Len(r) - 1, r[i].type = "end"
               PROVE  r[i + 1].type = "bye"
    BY DEF EndLast
  <2>1. /\ r[i] = q[i + 1] /\ r[i + 1] = q[(i + 1) + 1]
        /\ i + 1 \in 1 .. Len(q) - 1
    BY <1>1, <1>2
  <2> QED  BY <1>5, <2>1 DEF EndLast
<1>6. ASSUME EndLast(q), Head(q).type = "end", Len(r) # 0
      PROVE  r[1].type = "bye" /\ q[2].type = "bye"
  <2>1. 1 \in 1 .. Len(q) - 1 /\ 1 \in 1 .. Len(r)
    BY <1>1, <1>6
  <2>2. q[1 + 1].type = "bye"
    BY <1>1, <1>6, <2>1 DEF EndLast
  <2> QED  BY <1>2, <2>1, <2>2
<1>7. ASSUME EndLast(q), Head(q).type = "end", ByeLast(q) PROVE OnlyBye(r)
  <2>1. CASE Len(r) = 0
    BY <2>1 DEF OnlyBye
  <2>2. CASE Len(r) # 0
    <3>1. Len(q) - 1 = 1
      BY <1>1, <1>6, <1>7, <2>2 DEF ByeLast
    <3> QED  BY <1>1, <1>6, <1>7, <2>2, <3>1 DEF OnlyBye
  <2> QED  BY <2>1, <2>2
<1>8. ASSUME EndLast(q), Head(q).type = "end", ~Carries(q, "bye") PROVE r = <<>>
  BY <1>1, <1>6, <1>8 DEF Carries
<1>9. ASSUME OnlyBye(q) PROVE Head(q).type = "bye" /\ OnlyBye(r)
  BY <1>1, <1>2, <1>9 DEF OnlyBye
<1> QED  BY <1>3, <1>4, <1>5, <1>7, <1>8, <1>9 DEF r

LEMMA LastOnly ==
  ASSUME NEW q \in Seq(Msg), OnlyBye(q)
  PROVE  \A t : t # "bye" => ~Carries(q, t)
BY DEF OnlyBye, Carries

LEMMA Nothing ==
  /\ \A t : ~Carries(<<>>, t)
  /\ PutFirst(<<>>) /\ ByeLast(<<>>) /\ EndLast(<<>>) /\ OnlyBye(<<>>)
<1>1. Len(<<>>) = 0
  OBVIOUS
<1> QED  BY <1>1 DEF Carries, PutFirst, ByeLast, EndLast, OnlyBye

(* A connection that breaks keeps a prefix of what was on its way. If the  *)
(* end of an upload is in it, all was.                                     *)
LEMMA LastCut ==
  ASSUME NEW q \in Seq(Msg), NEW n \in 0 .. Len(q), PutFirst(q), EndLast(q),
         ~Carries(q, "bye")
  PROVE  LET r == Append(SubSeq(q, 1, n), Plain("bye")) IN
         /\ \A t : Carries(r, t) => Carries(q, t) \/ t = "bye"
         /\ PutFirst(r) /\ ByeLast(r) /\ EndLast(r) /\ Carries(r, "bye")
         /\ OnlyBye(q) => OnlyBye(r)
         /\ Carries(q, "put") => Carries(r, "put") \/ OnlyBye(r)
         /\ Carries(r, "end") => r = Append(q, Plain("bye"))
<1> DEFINE r == Append(SubSeq(q, 1, n), Plain("bye"))
<1>1. /\ Len(q) \in Nat /\ Len(r) = n + 1 /\ n \in Nat /\ n <= Len(q)
      /\ r[n + 1].type = "bye"
  BY DEF Plain
<1>2. \A i \in 1 .. n : r[i] = q[i] /\ i \in 1 .. Len(q)
  BY <1>1
<1>3. n = Len(q) => r = Append(q, Plain("bye"))
  OBVIOUS
<1> HIDE DEF r
<1>4. \A t : Carries(r, t) => Carries(q, t) \/ t = "bye"
  BY <1>1, <1>2 DEF Carries
<1>5. PutFirst(r) /\ ByeLast(r) /\ Carries(r, "bye")
  BY <1>1, <1>2 DEF PutFirst, ByeLast, Carries
<1>6. ASSUME NEW i \in 1 .. n, q[i].type = "end" PROVE i = n /\ n = Len(q)
  <2>1. q[i + 1].type # "bye" \/ i = Len(q)
    BY <1>1, <1>2 DEF Carries
  <2>2. i = Len(q)
    BY <1>1, <1>6, <2>1 DEF EndLast
  <2> QED  BY <1>1, <2>2
<1>7. EndLast(r)
  BY <1>1, <1>2, <1>6 DEF EndLast
<1>8. OnlyBye(q) => OnlyBye(r)
  BY <1>1, <1>2 DEF OnlyBye
<1>9. ASSUME Carries(q, "put")
      PROVE  Carries(r, "put") \/ OnlyBye(r)
  <2>1. 1 \in 1 .. Len(q) /\ q[1].type = "put"
    BY <1>1, <1>9 DEF PutFirst, Carries
  <2>2. CASE n = 0
    BY <1>1, <2>2 DEF OnlyBye
  <2>3. CASE n # 0
    BY <1>1, <1>2, <2>1, <2>3 DEF Carries
  <2> QED  BY <2>2, <2>3
<1>10. ASSUME Carries(r, "end") PROVE r = Append(q, Plain("bye"))
  <2>1. PICK i \in 1 .. Len(r) : r[i].type = "end"
    BY <1>10 DEF Carries
  <2>2. i \in 1 .. n /\ q[i].type = "end"
    BY <1>1, <1>2, <2>1
  <2> QED  BY <1>3, <1>6, <2>2
<1> QED  BY Zenon, <1>4, <1>5, <1>7, <1>8, <1>9, <1>10 DEF r

LEMMA ByeCut ==
  ASSUME NEW q \in Seq(Msg), NEW n \in 0 .. Len(q), ~Carries(q, "bye")
  PROVE  /\ ByeLast(Append(SubSeq(q, 1, n), Plain("bye")))
         /\ Carries(Append(SubSeq(q, 1, n), Plain("bye")), "bye")
<1> DEFINE r == Append(SubSeq(q, 1, n), Plain("bye"))
<1>1. /\ Len(q) \in Nat /\ Len(r) = n + 1 /\ n \in Nat /\ n <= Len(q)
      /\ r[n + 1].type = "bye"
  BY DEF Plain
<1>2. \A i \in 1 .. n : r[i] = q[i] /\ i \in 1 .. Len(q)
  BY <1>1
<1> HIDE DEF r
<1>3. ByeLast(r) /\ Carries(r, "bye")
  BY <1>1, <1>2 DEF ByeLast, Carries
<1> QED  BY <1>3 DEF r

-----------------------------------------------------------------------------
(* The session: a task runs only for a client that is there; the end of    *)
(* the client's connection is the last message on it, and the session ends *)
(* with it.                                                                *)

Session ==
  /\ worker \in {"put", "end"} => dir = "put"
  /\ worker \in {"arm", "get", "store"} => dir = "get"
  /\ worker # "idle" => up
  /\ up => sess
  /\ ~sess => mFtp = 0 /\ toAgent = <<>>
  /\ Carries(toAgent, "bye") <=> sess /\ ~up
  /\ ByeLast(toAgent) /\ ~Carries(toDevice, "bye")
  /\ status = "done" => stopJob /\ worker = "idle"
  /\ worker = "put" => sent \in 0 .. Chunks
  /\ worker = "shut" => "unopened" \in blame

LEMMA InitSession ==
  ASSUME Init PROVE Session
BY Nothing DEF Init, Session

(* What is left alone by actions of the other parts.                       *)
LEMMA SessionQuiet ==
  ASSUME Session,
         UNCHANGED <<dir, up, sess, toAgent, status, stopJob, worker, sent>>,
         blame \subseteq blame', mFtp' = mFtp \/ mFtp' = 0,
         Carries(toDevice', "bye") => Carries(toDevice, "bye")
  PROVE  Session'
BY DEF Session

(* A step of the task that sends a message or none.                        *)
LEMMA SessionTask ==
  ASSUME Typed, Session,
         UNCHANGED <<dir, up, sess, mFtp, toDevice>>, up,
         \/ toAgent' = toAgent
         \/ \E m \in Msg : m.type # "bye" /\ toAgent' = Append(toAgent, m),
         worker' \in {"put", "end"} => dir = "put",
         worker' = "put" => sent' \in 0 .. Chunks,
         worker' \in {"arm", "get", "store"} => dir = "get",
         status' = "done" => stopJob' /\ worker' = "idle", worker' # "shut"
  PROVE  Session'
<1>1. toAgent \in Seq(Msg)
  BY Zenon DEF Typed, TypeOK, Channels
<1>2. sess /\ ~Carries(toAgent, "bye")
  BY DEF Session
<1>3. ~Carries(toAgent', "bye") /\ ByeLast(toAgent')
  <2>1. CASE toAgent' = toAgent
    BY <1>2, <2>1 DEF Session
  <2>2. ASSUME NEW m \in Msg, m.type # "bye", toAgent' = Append(toAgent, m)
        PROVE  ~Carries(toAgent', "bye") /\ ByeLast(toAgent')
    BY <1>1, <1>2, <2>2, CarriesQueue, LastSend
  <2> QED  BY <2>1, <2>2
<1> QED  BY <1>2, <1>3 DEF Session

(* A writer that gives up drops its own message, never the end of the      *)
(* connection.                                                             *)
LEMMA SessionDrop ==
  ASSUME Typed, Session, GivesUp
  PROVE  Session'
<1>a. toAgent \in Seq(Msg) /\ toDevice \in Seq(Msg) /\ Cap \in Nat \ {0}
  BY Zenon, BoundsAssumption DEF Typed, TypeOK, Channels
<1>1. /\ UNCHANGED <<dir, up, sess, status, stopJob, worker, sent, mFtp>>
      /\ blame \subseteq blame'
      /\ toAgent' = toAgent \/ (Unsent(toAgent) /\ toAgent' = Drop(toAgent))
      /\ toDevice' = toDevice \/ (Unsent(toDevice) /\ toDevice' = Drop(toDevice))
  BY DEF GivesUp
<1>2. ASSUME NEW q \in Seq(Msg), Unsent(q)
      PROVE  /\ Carries(Drop(q), "bye") <=> Carries(q, "bye")
             /\ ByeLast(q) => ByeLast(Drop(q))
             /\ q # <<>>
  <2> DEFINE r == Drop(q)
  <2>1. /\ Len(q) = Cap /\ Len(r) = Len(q) - 1 /\ q[Len(q)].type # "bye"
        /\ \A i \in 1 .. Len(r) : r[i] = q[i]
    BY <1>a, <1>2 DEF Unsent, Drop
  <2> HIDE DEF r
  <2>2. \A i \in 1 .. Len(q) : i \in 1 .. Len(r) \/ i = Len(q)
    BY <1>a, <2>1
  <2>3. Carries(r, "bye") <=> Carries(q, "bye")
    BY <1>a, <2>1, <2>2 DEF Carries
  <2>4. ByeLast(q) => ByeLast(r)
    BY <1>a, <2>1 DEF ByeLast
  <2>5. q # <<>>
    BY <1>a, <2>1
  <2> QED  BY <2>3, <2>4, <2>5 DEF r
<1>3. /\ Carries(toAgent', "bye") <=> Carries(toAgent, "bye")
      /\ ByeLast(toAgent) => ByeLast(toAgent')
      /\ toAgent = <<>> => toAgent' = <<>>
  BY <1>a, <1>1, <1>2
<1>4. Carries(toDevice', "bye") <=> Carries(toDevice, "bye")
  BY <1>a, <1>1, <1>2
<1> QED  BY <1>1, <1>3, <1>4 DEF Session

LEMMA NextSession ==
  ASSUME Typed, Session, [Next]_vars
  PROVE  Session'
<1>a. toAgent \in Seq(Msg)
  BY Zenon DEF Typed, TypeOK, Channels
<1>b. toDevice \in Seq(Msg)
  BY Zenon DEF Typed, TypeOK, Channels
<1>m. /\ Plain("error") \in Msg /\ Plain("end") \in Msg /\ Plain("bye") \in Msg
      /\ Plain("error").type = "error" /\ Plain("end").type = "end"
      /\ Plain("bye").type = "bye"
  BY Messages DEF Plain
<1>1. CASE Connect
  BY <1>1, Nothing DEF Connect, Session
<1>2. CASE Cancel
  BY <1>2 DEF Cancel, Session
<1>3. CASE Break
  <2>1. PICK n \in 0 .. Len(toAgent) :
               toAgent' = Append(SubSeq(toAgent, 1, n), Plain("bye"))
    BY <1>3 DEF Break
  <2>2. ~Carries(toAgent, "bye") /\ sess
    BY <1>3 DEF Break, Session
  <2>3. ByeLast(toAgent') /\ Carries(toAgent', "bye")
    BY <1>a, <2>1, <2>2, ByeCut
  <2> QED  BY <1>3, <2>2, <2>3 DEF Break, Session
<1>4. CASE PutChunk
  <2>1. /\ toAgent' = Append(toAgent, [type |-> "write", file |-> file])
        /\ file \in Files
    BY <1>4 DEF PutChunk, Typed, Working
  <2>2. up
    BY <1>4 DEF PutChunk, Session
  <2>3. \E m \in Msg : m.type # "bye" /\ toAgent' = Append(toAgent, m)
    BY <2>1, Messages
  <2>4. sent' \in 0 .. Chunks
    BY <1>4, ChunksAssumption DEF PutChunk, Typed, TypeOK
  <2>5. worker = "put" /\ dir = "put" /\ UNCHANGED <<status, stopJob, worker>>
    BY <1>4 DEF PutChunk, Session
  <2>6. UNCHANGED <<dir, up, sess, mFtp, toDevice>>
    BY <1>4 DEF PutChunk
  <2>7. status' = "done" => stopJob' /\ worker' = "idle"
    BY <2>5 DEF Session
  <2>8. worker' # "shut"
    BY <2>5
  <2> QED  BY <2>2, <2>3, <2>4, <2>5, <2>6, <2>7, <2>8, SessionTask
<1>5. CASE PutCancel
  <2>1. up /\ \E m \in Msg : m.type # "bye" /\ toAgent' = Append(toAgent, m)
    BY <1>5, <1>m DEF PutCancel, Session
  <2> QED  BY <1>5, <2>1, SessionTask DEF PutCancel, Session
<1>6. CASE PutEnd
  <2>1. up
    BY <1>6 DEF PutEnd, Session
  <2>2. \/ toAgent' = toAgent
        \/ \E m \in Msg : m.type # "bye" /\ toAgent' = Append(toAgent, m)
    BY <1>6, <1>m DEF PutEnd
  <2> QED  BY <1>6, <2>1, <2>2, SessionTask DEF PutEnd, Finish
<1>7. CASE GetArm
  BY <1>7 DEF GetArm, Session
<1>8. CASE GetCancel
  <2>1. up /\ \E m \in Msg : m.type # "bye" /\ toAgent' = Append(toAgent, m)
    BY <1>8, <1>m DEF GetCancel, Session
  <2> QED  BY <1>8, <2>1, SessionTask DEF GetCancel, Finish
<1>9. CASE GetLast
  BY <1>9 DEF GetLast, Finish, Session
<1>10. CASE GetChunk
  BY <1>10 DEF GetChunk, Session
<1>11. CASE GetStored
  BY <1>11 DEF GetStored, Session
<1>12. CASE GetFails
  <2>1. up /\ \E m \in Msg : m.type # "bye" /\ toAgent' = Append(toAgent, m)
    BY <1>12, <1>m DEF GetFails, Session
  <2> QED  BY <1>12, <2>1, SessionTask DEF GetFails, Finish
<1>13. CASE ReadData
  BY <1>13, SessionQuiet DEF ReadData
<1>14. CASE ReadError
  BY <1>14 DEF ReadError, Session
<1>15. CASE Forward
  <2>1. /\ toAgent # <<>> /\ toAgent' = Tail(toAgent) /\ Head(toAgent) \in Msg
        /\ \/ toDevice' = Append(toDevice, Head(toAgent))
           \/ toDevice' = toDevice
        /\ Head(toAgent).type # "bye"
    BY <1>15, <1>a, Taking DEF Forward
  <2>2. /\ Carries(toAgent', "bye") <=> Carries(toAgent, "bye")
        /\ ByeLast(toAgent) => ByeLast(toAgent')
        /\ Carries(toDevice', "bye") <=> Carries(toDevice, "bye")
    <3>1. CASE toDevice' = toDevice
      BY <1>a, <2>1, <3>1, CarriesQueue, LastTake
    <3>2. CASE toDevice' = Append(toDevice, Head(toAgent))
      BY <1>a, <1>b, <2>1, <3>2, CarriesQueue, LastTake
    <3> QED  BY <2>1, <3>1, <3>2
  <2>3. /\ UNCHANGED <<dir, up, sess, status, stopJob, worker, sent>> /\ sess
        /\ blame \subseteq blame'
    BY <1>15 DEF Forward
  <2> QED  BY <2>2, <2>3 DEF Session
<1>16. CASE ExitClient
  <2>1. /\ toAgent # <<>> /\ toAgent' = Tail(toAgent)
        /\ Head(toAgent).type = "bye"
        /\ toDevice' = toDevice \/ toDevice' = Append(toDevice, Plain("error"))
        /\ mFtp' = 0 /\ ~sess'
        /\ UNCHANGED <<dir, up, status, stopJob, worker, sent, blame>>
    BY <1>16 DEF ExitClient
  <2>2. Carries(toDevice', "bye") => Carries(toDevice, "bye")
    <3>1. CASE toDevice' = toDevice
      BY <3>1
    <3>2. CASE toDevice' = Append(toDevice, Plain("error"))
      BY <1>b, <1>m, <3>2, CarriesQueue
    <3> QED  BY <2>1, <3>1, <3>2
  <2>3. toAgent' = <<>> /\ Carries(toAgent, "bye")
    BY <1>a, <2>1, LastTake, CarriesQueue DEF Session
  <2>4. ~Carries(toAgent', "bye") /\ ByeLast(toAgent')
    BY <2>3, Nothing
  <2> QED  BY <2>1, <2>2, <2>3, <2>4 DEF Session
<1>17. CASE Relay
  BY <1>17, SessionQuiet DEF Relay
<1>18. CASE RelayClear
  BY <1>18, SessionQuiet DEF RelayClear
<1>19. CASE ConvertFails \/ OnFileDownloadReq \/ OnFileUploadReq \/ OnFileWrite
              \/ OnFileEnd \/ OnFileErr
  <2>1. toDevice # <<>> /\ toDevice' = Tail(toDevice)
    BY <1>19 DEF ConvertFails, OnFileDownloadReq, OnFileUploadReq, OnFileWrite,
       OnFileEnd, OnFileErr, Arrived
  <2>2. Carries(toDevice', "bye") => Carries(toDevice, "bye")
    BY <1>b, <2>1, CarriesQueue
  <2>3. /\ UNCHANGED <<dir, up, sess, toAgent, status, stopJob, worker, sent,
                       mFtp>>
        /\ blame \subseteq blame'
    BY <1>19 DEF ConvertFails, OnFileDownloadReq, OnFileUploadReq, OnFileWrite,
       OnFileEnd, OnFileErr
  <2> QED  BY <2>2, <2>3, SessionQuiet
<1>20. ASSUME NEW d \in {"put", "get"}, NEW f \in Files, Start(d, f)
       PROVE  Session'
  <2>1. /\ up /\ toAgent' = Append(toAgent, [type |-> d, file |-> f])
        /\ UNCHANGED <<up, sess, mFtp, toDevice>> /\ dir' = d
        /\ worker' = IF d = "put" THEN "put" ELSE "arm"
        /\ status' = "busy" /\ sent' = 0
    BY <1>20 DEF Start
  <2>2. [type |-> d, file |-> f] \in Msg
    BY Messages
  <2>3. sess /\ ~Carries(toAgent, "bye")
    BY <2>1 DEF Session
  <2>4. ~Carries(toAgent', "bye") /\ ByeLast(toAgent')
    BY <1>a, <2>1, <2>2, <2>3, CarriesQueue, LastSend
  <2> QED  BY <2>1, <2>3, <2>4, ChunksAssumption DEF Session
<1>21. ASSUME NEW j \in Jobs, Download(j)
       PROVE  Session'
  <2>1. UNCHANGED <<dir, up, sess, toAgent, toDevice, status, stopJob, worker,
                    sent, mFtp, blame>>
    BY <1>21 DEF Download, ThreadStat, ThreadOpen, ThreadRead, ThreadStopped,
       ThreadExit
  <2> QED  BY <2>1, SessionQuiet
<1>22. CASE UNCHANGED vars
  BY <1>22, SessionQuiet DEF vars
<1>23. ASSUME NEW d \in {"put", "get"}, NEW f \in Files, StartFails(d, f)
       PROVE  Session'
  BY <1>23 DEF StartFails, Session
<1>24. CASE Shut \/ PutFails
  BY <1>24 DEF Shut, PutFails, Finish, Session
<1>25. CASE OtherArrives \/ RestartFbc
  BY <1>25, SessionQuiet DEF OtherArrives, RestartFbc
<1>26. CASE LinkLost
  <2>1. ~Carries(toDevice', "bye")
    BY <1>26, Nothing DEF LinkLost
  <2>2. UNCHANGED <<dir, up, sess, toAgent, status, stopJob, worker, sent, mFtp>>
        /\ blame \subseteq blame'
    BY <1>26 DEF LinkLost
  <2> QED  BY <2>1, <2>2, SessionQuiet
<1>27. CASE GivesUp
  BY <1>27, SessionDrop
<1> QED
  BY <1>1, <1>2, <1>3, <1>4, <1>5, <1>6, <1>7, <1>8, <1>9, <1>10, <1>11,
     <1>12, <1>13, <1>14, <1>15, <1>16, <1>17, <1>18, <1>19, <1>20, <1>21,
     <1>22, <1>23, <1>24, <1>25, <1>26, <1>27
  DEF Next, User, Environment, Task, Reader, ClientThread, ScreenThread, Daemon

-----------------------------------------------------------------------------
(* The requests on their way: all belong to one transfer, its request is   *)
(* before its data, and nothing follows the end of an upload but the end   *)
(* of the connection.                                                      *)

OnWay(t) == Carries(toAgent, t) \/ Carries(toDevice, t)

Ordered ==
  /\ InOrder
  /\ EndLast(toAgent) /\ EndLast(toDevice)
  /\ Carries(toDevice, "end") => OnlyBye(toAgent) /\ mFtp = 0
  /\ OnWay("end") => dir = "put" /\ worker \notin {"put", "end"}
  /\ OnWay("get") => dir = "get"

(* Transfers that have met, or lost a message; a file that stays open      *)
(* because its upload has ended without a word.                            *)
Strayed ==
  \/ blame \cap {"answers", "requests", "lag", "link"} # {}
  \/ {"unread", "openFile"} \subseteq blame
Path == ~Strayed => Ordered

LEMMA InitPath ==
  ASSUME Init PROVE Path
BY Nothing DEF Init, Path, Ordered, InOrder, OnWay

(* What an unmixed transfer finds when it starts.                          *)
LEMMA Starting ==
  ASSUME Typed, blame \subseteq blame', Remains \subseteq blame', ~Strayed'
  PROVE  /\ toAgent = <<>> /\ toDevice = <<>> /\ Answered /\ ~Strayed
         /\ fd # NoFile => "openFile" \in blame' /\ "unread" \notin blame
<1>1. toAgent \in Seq(Msg) /\ toDevice \in Seq(Msg)
  BY Zenon DEF Typed, TypeOK, Channels
<1>2. "requests" \notin Remains /\ "answers" \notin Remains /\ ~Strayed
  BY DEF Strayed
<1>3. toAgent \o toDevice = <<>> /\ Answered
  BY <1>2 DEF Remains
<1>4. fd # NoFile => "openFile" \in blame'
  BY DEF Remains
<1>5. fd # NoFile => "unread" \notin blame
  BY <1>4 DEF Strayed
<1> QED  BY <1>1, <1>2, <1>3, <1>4, <1>5

LEMMA PathQuiet ==
  ASSUME Path, blame \subseteq blame', UNCHANGED <<dir, toAgent, toDevice>>,
         worker' = worker \/ worker' \notin {"put", "end"},
         mFtp' = mFtp \/ mFtp' = 0
  PROVE  Path'
<1>1. Strayed => Strayed'
  BY DEF Strayed
<1> QED  BY <1>1 DEF Path, Ordered, InOrder, OnWay

(* The task sends a message that is not a request.                         *)
LEMMA PathSent ==
  ASSUME Typed, Session, Path, blame \subseteq blame',
         UNCHANGED <<dir, toDevice, mFtp>>, worker \notin {"idle", "shut"},
         NEW m \in Msg, m.type \in {"write", "error", "end"},
         toAgent' = Append(toAgent, m),
         m.type = "end" => dir = "put" /\ worker' \notin {"put", "end"}
  PROVE  Path'
<1>a. toAgent \in Seq(Msg)
  BY Zenon DEF Typed, TypeOK, Channels
<1> SUFFICES ASSUME ~Strayed' PROVE Ordered'
  BY DEF Path
<1>1. Ordered
  BY DEF Path, Strayed
<1>2. ~Carries(toAgent, "bye") /\ ~OnWay("end")
  BY <1>1 DEF Session, Ordered, Typed, TypeOK, Workers
<1>3. /\ Carries(toAgent', "put") <=> Carries(toAgent, "put")
      /\ Carries(toAgent', "end") => m.type = "end"
      /\ Carries(toAgent', "get") <=> Carries(toAgent, "get")
  BY <1>a, <1>2, CarriesQueue DEF OnWay
<1>4. PutFirst(toAgent')
  BY <1>a, <1>1, PutFirstQueue DEF Ordered, InOrder
<1>5. EndLast(toAgent')
  BY <1>a, <1>1, <1>2, LastSend DEF Ordered, OnWay
<1>6. InOrder'
  BY <1>1, <1>3, <1>4 DEF Ordered, InOrder
<1> QED  BY <1>1, <1>2, <1>3, <1>5, <1>6 DEF Ordered, OnWay

(* The daemon takes a message.                                             *)
LEMMA PathTaken ==
  ASSUME Typed, Path, toDevice # <<>>, toDevice' = Tail(toDevice),
         blame \subseteq blame', UNCHANGED <<dir, toAgent, worker, mFtp>>
  PROVE  Path'
<1>b. toDevice \in Seq(Msg)
  BY Zenon DEF Typed, TypeOK, Channels
<1> SUFFICES ASSUME ~Strayed' PROVE Ordered'
  BY DEF Path
<1>1. Ordered
  BY DEF Path, Strayed
<1>2. /\ Carries(toDevice', "end") => Carries(toDevice, "end")
      /\ Carries(toDevice', "get") => Carries(toDevice, "get")
  BY <1>b, CarriesQueue
<1>3. InOrder'
  BY <1>b, <1>1, PutFirstQueue DEF Ordered, InOrder
<1>4. EndLast(toDevice')
  BY <1>b, <1>1, LastTake DEF Ordered
<1> QED  BY <1>1, <1>2, <1>3, <1>4 DEF Ordered, OnWay

LEMMA NextPath ==
  ASSUME Typed, Session, Path, [Next]_vars
  PROVE  Path'
<1>a. toAgent \in Seq(Msg)
  BY Zenon DEF Typed, TypeOK, Channels
<1>b. toDevice \in Seq(Msg)
  BY Zenon DEF Typed, TypeOK, Channels
<1>m. /\ Plain("error") \in Msg /\ Plain("end") \in Msg /\ Plain("bye") \in Msg
      /\ Plain("error").type = "error" /\ Plain("end").type = "end"
      /\ Plain("bye").type = "bye"
  BY Messages DEF Plain
<1>1. CASE Connect
  BY <1>1, PathQuiet DEF Connect
<1>2. CASE Cancel
  BY <1>2, PathQuiet DEF Cancel
<1>3. CASE Break
  <2>1. PICK n \in 0 .. Len(toAgent) :
               toAgent' = Append(SubSeq(toAgent, 1, n), Plain("bye"))
    BY <1>3 DEF Break
  <2>2. ~Carries(toAgent, "bye") /\ blame' = blame
        /\ UNCHANGED <<dir, toDevice, mFtp>> /\ worker' = "idle"
    BY <1>3 DEF Break, Session
  <2> SUFFICES ASSUME ~Strayed PROVE Ordered'
    BY <2>2 DEF Path, Strayed
  <2>3. Ordered
    BY DEF Path
  <2>4. /\ \A t : Carries(toAgent', t) => Carries(toAgent, t) \/ t = "bye"
        /\ PutFirst(toAgent') /\ EndLast(toAgent')
        /\ OnlyBye(toAgent) => OnlyBye(toAgent')
    BY <1>a, <2>1, <2>2, <2>3, LastCut DEF Ordered, InOrder
  <2>5. /\ Carries(toAgent', "put") => Carries(toAgent, "put")
        /\ Carries(toAgent', "end") => Carries(toAgent, "end")
        /\ Carries(toAgent', "get") => Carries(toAgent, "get")
    BY <2>4
  <2>6. InOrder'
    BY <2>2, <2>3, <2>4, <2>5 DEF Ordered, InOrder
  <2> QED  BY <2>2, <2>3, <2>4, <2>5, <2>6 DEF Ordered, OnWay
<1>4. CASE PutChunk
  <2>1. /\ toAgent' = Append(toAgent, [type |-> "write", file |-> file])
        /\ file \in Files
    BY <1>4 DEF PutChunk, Typed, Working
  <2>2. PICK m \in Msg : m.type = "write" /\ toAgent' = Append(toAgent, m)
    BY <2>1, Messages
  <2>3. UNCHANGED <<dir, toDevice, mFtp, blame>> /\ worker = "put"
    BY <1>4 DEF PutChunk
  <2> QED  BY <2>2, <2>3, PathSent
<1>5. CASE PutCancel
  <2>1. /\ UNCHANGED <<dir, toDevice, mFtp, blame>> /\ worker = "put"
        /\ toAgent' = Append(toAgent, Plain("error"))
    BY <1>5 DEF PutCancel
  <2> QED  BY <1>m, <2>1, PathSent
<1>6. CASE PutEnd
  <2>1. /\ UNCHANGED <<dir, toDevice, mFtp>> /\ worker \in {"put", "end"}
        /\ worker' = "idle" /\ blame \subseteq blame'
        /\ toAgent' = Append(toAgent, Plain("end")) \/ toAgent' = toAgent
    BY <1>6 DEF PutEnd, Finish
  <2>2. dir = "put"
    BY <2>1 DEF Session
  <2>3. CASE toAgent' = Append(toAgent, Plain("end"))
    BY <1>m, <2>1, <2>2, <2>3, PathSent
  <2>4. CASE toAgent' = toAgent
    BY <2>1, <2>4, PathQuiet
  <2> QED  BY <2>1, <2>3, <2>4
<1>7. CASE GetArm \/ GetLast \/ GetChunk \/ GetStored
  BY <1>7, PathQuiet DEF GetArm, GetLast, GetChunk, GetStored, Finish
<1>8. CASE GetCancel \/ GetFails
  <2>1. /\ UNCHANGED <<dir, toDevice, mFtp>> /\ worker \in {"get", "store"}
        /\ blame \subseteq blame' /\ toAgent' = Append(toAgent, Plain("error"))
    BY <1>8 DEF GetCancel, GetFails
  <2> QED  BY <1>m, <2>1, PathSent
<1>9. CASE ReadData \/ ReadError
  BY <1>9, PathQuiet DEF ReadData, ReadError
<1>15. CASE Forward
  <2> SUFFICES ASSUME ~Strayed' PROVE Ordered'
    BY DEF Path
  <2>1. /\ toAgent # <<>> /\ toAgent' = Tail(toAgent) /\ Head(toAgent) \in Msg
        /\ toDevice' = Append(toDevice, Head(toAgent))
        /\ Head(toAgent).type # "bye"
        /\ UNCHANGED <<dir, worker, blame>>
        /\ Head(toAgent).type = "end" => mFtp' = 0
    BY <1>15, <1>a, Taking DEF Forward, Strayed
  <2>2. Ordered
    BY <2>1 DEF Path, Strayed
  <2>3. ~OnlyBye(toAgent) /\ ~Carries(toDevice, "end")
    BY <1>a, <2>1, <2>2, LastTake DEF Ordered
  <2>4. /\ \A t : Carries(toAgent, t) <=>
                    Head(toAgent).type = t \/ Carries(toAgent', t)
        /\ \A t : Carries(toDevice', t) <=>
                    Carries(toDevice, t) \/ Head(toAgent).type = t
    BY <1>a, <1>b, <2>1, CarriesQueue
  <2>5. /\ OnWay("end")' <=> OnWay("end")
        /\ OnWay("get")' <=> OnWay("get")
        /\ Carries(toDevice', "end") => Head(toAgent).type = "end"
    BY <2>3, <2>4 DEF OnWay
  <2>6. /\ PutFirst(toAgent') /\ ~Carries(toAgent', "put")
        /\ EndLast(toAgent')
        /\ Head(toAgent).type = "end" => OnlyBye(toAgent')
    BY <1>a, <2>1, <2>2, PutFirstQueue, LastTake DEF Ordered, InOrder, Session
  <2>7. PutFirst(toDevice')
    <3>1. Head(toAgent).type = "put" => toDevice = <<>>
      BY <2>2, <2>4 DEF Ordered, InOrder
    <3> QED  BY <1>b, <2>1, <2>2, <3>1, PutFirstQueue DEF Ordered, InOrder
  <2>8. EndLast(toDevice')
    BY <1>b, <2>1, <2>2, <2>3, LastSend DEF Ordered
  <2>9. InOrder'
    BY <2>6, <2>7 DEF InOrder
  <2> QED  BY <2>1, <2>2, <2>5, <2>6, <2>8, <2>9 DEF Ordered
<1>16. CASE ExitClient
  <2>1. /\ toAgent # <<>> /\ toAgent' = Tail(toAgent)
        /\ Head(toAgent).type = "bye"
        /\ \/ toDevice' = toDevice
           \/ mFtp = 1 /\ toDevice' = Append(toDevice, Plain("error"))
        /\ mFtp' = 0 /\ UNCHANGED <<dir, worker, blame>>
    BY <1>16 DEF ExitClient
  <2> SUFFICES ASSUME ~Strayed PROVE Ordered'
    BY <2>1 DEF Path, Strayed
  <2>2. Ordered
    BY DEF Path
  <2>3. toAgent' = <<>>
    BY <1>a, <2>1, LastTake DEF Session
  <2>4. ~Carries(toAgent', "put") /\ ~Carries(toAgent', "end")
        /\ ~Carries(toAgent', "get") /\ PutFirst(toAgent')
        /\ EndLast(toAgent') /\ OnlyBye(toAgent')
    BY <2>3, Nothing
  <2>5. /\ PutFirst(toDevice') /\ EndLast(toDevice')
        /\ Carries(toDevice', "end") => Carries(toDevice, "end")
        /\ Carries(toDevice', "get") => Carries(toDevice, "get")
    <3>1. CASE toDevice' = toDevice
      BY <2>2, <3>1 DEF Ordered, InOrder
    <3>2. CASE mFtp = 1 /\ toDevice' = Append(toDevice, Plain("error"))
      <4>1. PutFirst(toDevice')
        BY <1>b, <1>m, <2>2, <3>2, PutFirstQueue DEF Ordered, InOrder
      <4>2. EndLast(toDevice')
        BY <1>b, <1>m, <2>2, <3>2, LastSend DEF Ordered
      <4>3. /\ Carries(toDevice', "end") => Carries(toDevice, "end")
            /\ Carries(toDevice', "get") => Carries(toDevice, "get")
        BY <1>b, <1>m, <3>2, CarriesQueue
      <4> QED  BY <4>1, <4>2, <4>3
    <3> QED  BY <2>1, <3>1, <3>2
  <2> QED  BY <2>1, <2>2, <2>4, <2>5 DEF Ordered, InOrder, OnWay
<1>17. CASE Relay \/ RelayClear
  BY <1>17, PathQuiet DEF Relay, RelayClear
<1>19. CASE Daemon
  <2>1. toDevice # <<>> /\ toDevice' = Tail(toDevice) /\ blame \subseteq blame'
    BY <1>19 DEF Daemon, ConvertFails, OnFileDownloadReq, OnFileUploadReq,
       OnFileWrite, OnFileEnd, OnFileErr, Arrived
  <2>2. UNCHANGED <<dir, toAgent, worker, mFtp>>
    BY <1>19 DEF Daemon, ConvertFails, OnFileDownloadReq, OnFileUploadReq,
       OnFileWrite, OnFileEnd, OnFileErr
  <2> QED  BY <2>1, <2>2, PathTaken
<1>20. ASSUME NEW d \in {"put", "get"}, NEW f \in Files, Start(d, f)
       PROVE  Path'
  <2>1. /\ toAgent' = Append(toAgent, [type |-> d, file |-> f])
        /\ UNCHANGED <<mFtp, toDevice>> /\ dir' = d
        /\ blame' = blame \cup Remains
    BY <1>20 DEF Start
  <2> SUFFICES ASSUME ~Strayed' PROVE Ordered'
    BY DEF Path
  <2>2. toAgent = <<>> /\ toDevice = <<>>
    BY <2>1, Starting
  <2>3. PICK m \in Msg : m.type = d /\ toAgent' = Append(toAgent, m)
    BY <2>1, Messages
  <2>4. /\ \A t : Carries(toAgent', t) => t = d
        /\ PutFirst(toAgent') /\ EndLast(toAgent')
    BY <1>a, <2>2, <2>3, CarriesQueue, PutFirstQueue, LastSend, Nothing
  <2>5. /\ \A t : ~Carries(toDevice', t)
        /\ PutFirst(toDevice') /\ EndLast(toDevice') /\ toDevice' = <<>>
    BY <2>1, <2>2, Nothing
  <2>6. ~Carries(toAgent', "end") /\ (Carries(toAgent', "get") => d = "get")
    BY <2>4
  <2> QED  BY <2>1, <2>4, <2>5, <2>6 DEF Ordered, InOrder, OnWay
<1>21. ASSUME NEW j \in Jobs, Download(j)
       PROVE  Path'
  <2>1. UNCHANGED <<dir, toAgent, toDevice, blame, worker, mFtp>>
    BY <1>21 DEF Download, ThreadStat, ThreadOpen, ThreadRead, ThreadStopped,
       ThreadExit
  <2> QED  BY <2>1, PathQuiet
<1>22. CASE UNCHANGED vars
  BY <1>22, PathQuiet DEF vars
<1>23. ASSUME NEW d \in {"put", "get"}, NEW f \in Files, StartFails(d, f)
       PROVE  Path'
  <2>1. /\ UNCHANGED <<mFtp, toDevice, toAgent>> /\ worker' = "shut"
        /\ blame' = blame \cup Remains \cup {"unopened"}
    BY <1>23 DEF StartFails
  <2> SUFFICES ASSUME ~Strayed' PROVE Ordered'
    BY DEF Path
  <2>2. toAgent = <<>> /\ toDevice = <<>>
    BY <2>1, Starting
  <2> QED  BY <2>1, <2>2, Nothing DEF Ordered, InOrder, OnWay
<1>24. CASE Shut \/ PutFails \/ OtherArrives \/ RestartFbc
  BY <1>24, PathQuiet DEF Shut, PutFails, Finish, OtherArrives, RestartFbc
<1>25. CASE LinkLost
  <2>1. /\ UNCHANGED <<dir, worker, mFtp, toAgent>> /\ toDevice' = <<>>
        /\ blame \subseteq blame' /\ (Remains = {} \/ Strayed')
    BY <1>25 DEF LinkLost, Strayed
  <2>2. CASE Remains = {}
    <3>1. toDevice = <<>>
      BY <1>a, <1>b, <2>2 DEF Remains
    <3> QED  BY <2>1, <3>1, PathQuiet
  <2> QED  BY <2>1, <2>2 DEF Path
<1>26. CASE GivesUp
  BY <1>26 DEF GivesUp, Path, Strayed
<1> QED
  BY <1>1, <1>2, <1>3, <1>4, <1>5, <1>6, <1>7, <1>8, <1>9, <1>15, <1>16,
     <1>17, <1>19, <1>20, <1>21, <1>22, <1>23, <1>24, <1>25, <1>26
  DEF Next, User, Environment, Task, Reader, ClientThread, ScreenThread

-----------------------------------------------------------------------------
(* An upload. It is under way as long as its request is on the way or a    *)
(* file is open or half written. Then m_ftp is set, unless what ends it is *)
(* on the way, and the blocks written and the blocks on their way are      *)
(* those that the task has sent.                                           *)

Half(f) == disk[f] \in 0 .. Chunks - 1
Open == \/ \E f \in Files : Half(f)
        \/ fd \in Files /\ "openFile" \notin blame
Uploading == OnWay("put") \/ Open
Written == IF Open THEN disk[fd] ELSE 0
Counted ==
  Written + Count(toAgent, "write") + Count(toDevice, "write")
    = IF worker = "put" THEN sent ELSE Chunks
OneOpen ==
  /\ \A f \in Files : Half(f) => f = fd
  /\ OnWay("put") => ~Open
  /\ Open => fd \in Files /\ name = fd /\ disk[fd] \in 0 .. Chunks
Flagged ==
  ~Carries(toAgent, "put") /\ ~Carries(toDevice, "error")
    /\ ~Carries(toDevice, "end") => mFtp = 1
Whole ==
  /\ ~OnWay("error")
  /\ \/ OnWay("end") \/ worker = "put"
     \/ "unread" \notin blame /\ ~Carries(toAgent, "bye")
Transfer ==
  /\ dir = "put" /\ Answered /\ OneOpen /\ Flagged
  /\ worker = "end" => OnWay("error")
  /\ Whole => Counted
Upload == ~Strayed /\ Uploading => Transfer

LEMMA InitUpload ==
  ASSUME Init PROVE Upload
<1>1. ~OnWay("put")
  BY Nothing DEF Init, OnWay
<1>2. fd \notin Files
  BY FilesAssumption DEF Init, FreshFd
<1>3. \A f \in Files : ~Half(f)
  <2>1. \A f \in Files : disk[f] = Chunks + 1
    BY DEF Init, Old
  <2>2. Chunks + 1 \notin 0 .. Chunks - 1
    BY ChunksAssumption
  <2> QED  BY <2>1, <2>2 DEF Half
<1> QED  BY <1>1, <1>2, <1>3 DEF Upload, Uploading, Open

(* An upload's share of a step that leaves its files alone.                *)
LEMMA SameOpen ==
  ASSUME UNCHANGED <<fd, disk>>, "openFile" \in blame' <=> "openFile" \in blame
  PROVE  /\ Open' <=> Open
         /\ Written' = Written
         /\ \A f \in Files : Half(f)' <=> Half(f)
<1>1. \A f \in Files : Half(f)' <=> Half(f)
  BY DEF Half
<1>2. Open' <=> Open
  BY <1>1 DEF Open
<1> QED  BY <1>1, <1>2 DEF Written

LEMMA UploadQuiet ==
  ASSUME Upload, blame \subseteq blame',
         "openFile" \in blame' <=> "openFile" \in blame,
         UNCHANGED <<dir, toAgent, toDevice, fd, name, disk>>,
         Answered => Answered' /\ mFtp' = mFtp,
         \/ worker' = worker /\ sent' = sent
         \/ worker \notin {"put", "end"} /\ worker' \notin {"put", "end"}
  PROVE  Upload'
<1>1. /\ Open' <=> Open
      /\ Written' = Written
      /\ \A f \in Files : Half(f)' <=> Half(f)
  BY SameOpen
<1>2. \A t : OnWay(t)' <=> OnWay(t)
  BY DEF OnWay
<1>3. Uploading' => Uploading
  BY <1>1, <1>2 DEF Uploading
<1>4. Strayed => Strayed'
  BY DEF Strayed
<1> SUFFICES ASSUME Transfer PROVE Transfer'
  BY <1>3, <1>4 DEF Upload
<1>5. OneOpen'
  BY <1>1, <1>2 DEF Transfer, OneOpen
<1>6. Answered' /\ Flagged'
  BY DEF Transfer, Flagged
<1>7. worker' = "end" => OnWay("error")'
  BY <1>2 DEF Transfer
<1>8. Whole' => Counted'
  BY <1>1, <1>2 DEF Transfer, Whole, Counted
<1> QED  BY <1>5, <1>6, <1>7, <1>8 DEF Transfer

(* The task sends a message that is not a request.                         *)
LEMMA UploadSent ==
  ASSUME Typed, Session, Upload, blame \subseteq blame',
         "openFile" \in blame' <=> "openFile" \in blame,
         UNCHANGED <<dir, toDevice, fd, name, disk, mFtp, toRelay, toClient,
                     relay, thread>>,
         NEW m \in Msg, m.type \in {"write", "error", "end"},
         toAgent' = Append(toAgent, m), worker \notin {"idle", "shut"},
         worker' = "end" => m.type = "error",
         worker = "put" /\ m.type # "error" =>
           (IF worker' = "put" THEN sent' ELSE Chunks)
             = sent + (IF m.type = "write" THEN 1 ELSE 0)
  PROVE  Upload'
<1>a. toAgent \in Seq(Msg) /\ toDevice \in Seq(Msg)
  BY Zenon DEF Typed, TypeOK, Channels
<1>1. /\ Open' <=> Open
      /\ Written' = Written
      /\ \A f \in Files : Half(f)' <=> Half(f)
  BY SameOpen
<1>2. /\ Carries(toAgent', "put") <=> Carries(toAgent, "put")
      /\ Carries(toAgent', "error") <=>
           Carries(toAgent, "error") \/ m.type = "error"
      /\ Carries(toAgent', "bye") <=> Carries(toAgent, "bye")
  BY <1>a, CarriesQueue
<1>3. Uploading' => Uploading
  BY <1>1, <1>2 DEF Uploading, OnWay
<1>4. Strayed => Strayed'
  BY DEF Strayed
<1> SUFFICES ASSUME Transfer PROVE Transfer'
  BY <1>3, <1>4 DEF Upload
<1>5. OneOpen'
  BY <1>1, <1>2 DEF Transfer, OneOpen, OnWay
<1>6. Answered' /\ Flagged'
  BY <1>2 DEF Transfer, Flagged, Answered
<1>7. worker' = "end" => OnWay("error")'
  BY <1>2 DEF Transfer, OnWay
<1>8. ASSUME Whole' PROVE Counted'
  <2>1. ~OnWay("error") /\ m.type # "error" /\ worker = "put"
    BY <1>2, <1>8 DEF Whole, OnWay, Transfer, Session, Typed, TypeOK, Workers
  <2>2. ~Carries(toAgent, "bye")
    BY <2>1 DEF Session
  <2>3. Counted
    BY <2>1, <2>2 DEF Transfer, Whole
  <2>4. Count(toAgent', "write")
          = Count(toAgent, "write") + (IF m.type = "write" THEN 1 ELSE 0)
    BY <1>a, CountSend
  <2>5. /\ Count(toAgent, "write") \in Nat /\ Count(toDevice, "write") \in Nat
    BY <1>a, CountNone
  <2>9. sent \in Nat
    BY ChunksAssumption DEF Typed, TypeOK
  <2>8. Written \in Int
    BY DEF Transfer, OneOpen, Written
  <2> DEFINE w == Written
             c == Count(toAgent, "write")
             e == Count(toDevice, "write")
  <2>6. w + c + e = sent
    BY <2>1, <2>3 DEF Counted
  <2>7. w + (c + (IF m.type = "write" THEN 1 ELSE 0)) + e
          = sent + (IF m.type = "write" THEN 1 ELSE 0)
    <3> HIDE DEF w, c, e
    <3> QED  BY <2>5, <2>6, <2>8, <2>9 DEF w, c, e
  <2> QED  BY <1>1, <2>1, <2>4, <2>7 DEF Counted
<1> QED  BY <1>5, <1>6, <1>7, <1>8 DEF Transfer

(* A task that downloads.                                                  *)
LEMMA UploadOther ==
  ASSUME Typed, Upload, blame \subseteq blame',
         "openFile" \in blame' <=> "openFile" \in blame,
         UNCHANGED <<toDevice, fd, disk>>, dir # "put",
         NEW m \in Msg, m.type # "put", toAgent' = Append(toAgent, m)
  PROVE  Upload'
<1>a. toAgent \in Seq(Msg)
  BY Zenon DEF Typed, TypeOK, Channels
<1>1. Open' <=> Open
  BY SameOpen
<1>2. Carries(toAgent', "put") <=> Carries(toAgent, "put")
  BY <1>a, CarriesQueue
<1>3. Uploading' => Uploading
  BY <1>1, <1>2 DEF Uploading, OnWay
<1>4. Strayed => Strayed'
  BY DEF Strayed
<1> QED  BY <1>3, <1>4 DEF Upload, Transfer

(* The daemon takes a message: what that says of an upload.                *)
LEMMA DaemonTakes ==
  ASSUME Typed, Session, Path, ~Strayed,
         toDevice # <<>>, toDevice' = Tail(toDevice), toAgent' = toAgent
  PROVE  /\ ~Carries(toAgent, "put") /\ ~OnWay("put")'
         /\ \A t : Carries(toDevice, t) <=>
                     Head(toDevice).type = t \/ Carries(toDevice', t)
         /\ Head(toDevice).type # "put" => ~OnWay("put")
         /\ Head(toDevice).type = "get" => dir = "get"
         /\ Head(toDevice).type = "end" =>
              toDevice' = <<>> /\ OnlyBye(toAgent) /\ worker \notin {"put", "end"}
         /\ Count(toDevice, "write") = Count(toDevice', "write")
              + (IF Head(toDevice).type = "write" THEN 1 ELSE 0)
         /\ Head(toDevice) \in Msg
<1>b. toDevice \in Seq(Msg)
  BY Zenon DEF Typed, TypeOK, Channels
<1>1. Ordered
  BY DEF Path
<1>2. \A t : Carries(toDevice, t) <=>
               Head(toDevice).type = t \/ Carries(toDevice', t)
  BY <1>b, CarriesQueue
<1>3. ~Carries(toAgent, "put") /\ ~Carries(toDevice', "put")
  BY <1>b, <1>1, PutFirstQueue DEF Ordered, InOrder
<1>4. Head(toDevice).type # "put" => ~OnWay("put")
  BY <1>2, <1>3 DEF OnWay
<1>5. Head(toDevice).type = "get" => dir = "get"
  BY <1>1, <1>2 DEF Ordered, OnWay
<1>6. ASSUME Head(toDevice).type = "end"
      PROVE  toDevice' = <<>> /\ OnlyBye(toAgent) /\ worker \notin {"put", "end"}
  <2>1. Carries(toDevice, "end")
    BY <1>2, <1>6
  <2>2. toDevice' = <<>>
    BY <1>b, <1>1, <1>6, LastTake DEF Ordered, Session
  <2> QED  BY <1>1, <2>1, <2>2 DEF Ordered, OnWay
<1>7. Count(toDevice, "write") = Count(toDevice', "write")
        + (IF Head(toDevice).type = "write" THEN 1 ELSE 0)
  BY <1>b, CountTake
<1>8. Head(toDevice) \in Msg
  BY <1>b, Taking
<1>9. ~OnWay("put")'
  BY <1>3 DEF OnWay
<1> QED  BY Zenon, <1>2, <1>3, <1>4, <1>5, <1>6, <1>7, <1>8, <1>9

(* What CloseUndoneFileTransfer leaves is not under way any more.          *)
LEMMA Closed ==
  ASSUME Typed, Upload, ~Strayed, CloseUndone
  PROVE  ~Open'
<1>1. fd' \notin Files
  BY FilesAssumption DEF CloseUndone
<1>2. ASSUME NEW f \in Files, Half(f)' PROVE FALSE
  <2>1. f # name /\ Half(f)
    BY <1>2 DEF CloseUndone, Half, Removed
  <2>2. Transfer /\ Open
    BY <2>1 DEF Upload, Uploading, Open
  <2> QED  BY <2>1, <2>2 DEF Transfer, OneOpen
<1> QED  BY <1>1, <1>2 DEF Open

LEMMA UploadBreak ==
  ASSUME Typed, Session, Path, Upload, Break
  PROVE  Upload'
<1>a. toAgent \in Seq(Msg) /\ toDevice \in Seq(Msg)
  BY Zenon DEF Typed, TypeOK, Channels
<1>0. PICK n \in 0 .. Len(toAgent) :
             toAgent' = Append(SubSeq(toAgent, 1, n), Plain("bye"))
  BY DEF Break
<1>1. /\ ~Carries(toAgent, "bye") /\ worker' = "idle" /\ toClient' = <<>>
      /\ UNCHANGED <<dir, toDevice, mFtp, blame, fd, name, disk, toRelay, relay,
                     thread>>
  BY DEF Break, Session
<1> SUFFICES ASSUME ~Strayed, Uploading' PROVE Transfer'
  BY <1>1 DEF Upload, Strayed
<1>2. Ordered
  BY DEF Path
<1>3. /\ \A t : Carries(toAgent', t) => Carries(toAgent, t) \/ t = "bye"
      /\ OnlyBye(toAgent) => OnlyBye(toAgent')
      /\ Carries(toAgent', "bye")
      /\ Carries(toAgent, "put") => Carries(toAgent', "put") \/ OnlyBye(toAgent')
      /\ Carries(toAgent', "end") => toAgent' = Append(toAgent, Plain("bye"))
  BY <1>a, <1>0, <1>1, <1>2, LastCut DEF Ordered, InOrder
<1>4. /\ Open' <=> Open
      /\ Written' = Written
      /\ \A f \in Files : Half(f)' <=> Half(f)
  BY <1>1, SameOpen
<1>5. /\ Carries(toAgent', "put") => Carries(toAgent, "put")
      /\ Carries(toAgent', "end") => Carries(toAgent, "end")
  BY <1>3
<1>6. Transfer
  BY <1>1, <1>4, <1>5 DEF Upload, Uploading, OnWay
<1>7. OneOpen'
  BY <1>1, <1>4, <1>5, <1>6 DEF Transfer, OneOpen, OnWay
<1>8. Answered'
  BY <1>1, <1>6 DEF Transfer, Answered
<1>9. Flagged'
  <2>1. CASE Carries(toAgent, "put") /\ ~Carries(toAgent', "put")
    <3>1. toDevice = <<>> /\ ~Open
      BY <1>2, <1>6, <2>1 DEF Ordered, InOrder, Transfer, OneOpen, OnWay
    <3>2. ~Carries(toDevice', "put")
      BY <1>1, <3>1, Nothing
    <3> QED  BY <1>4, <2>1, <3>1, <3>2 DEF Uploading, OnWay
  <2>2. CASE Carries(toAgent', "put")
    BY <2>2 DEF Flagged
  <2>3. CASE ~Carries(toAgent, "put")
    BY <1>1, <1>6, <2>3 DEF Transfer, Flagged
  <2> QED  BY <2>1, <2>2, <2>3
<1>10. ASSUME Whole' PROVE Counted'
  <2>1. OnWay("end")' /\ ~Carries(toAgent', "error") /\ ~Carries(toDevice, "error")
    BY <1>1, <1>3, <1>10 DEF Whole, OnWay
  <2>2. OnWay("end") /\ worker # "put"
    BY <1>1, <1>2, <1>5, <2>1 DEF OnWay, Ordered
  <2>3. CASE Carries(toDevice, "end")
    <3>1. OnlyBye(toAgent) /\ OnlyBye(toAgent')
      BY <1>2, <1>3, <2>3 DEF Ordered
    <3>2. ~Carries(toAgent, "error") /\ ~Carries(toAgent, "write")
      BY <1>a, <3>1, LastOnly
    <3>3. Counted
      BY <1>6, <2>1, <2>2, <3>2 DEF Transfer, Whole, OnWay
    <3>4. ~Carries(toAgent', "write")
      BY <1>3, <3>2
    <3>5. toAgent' \in Seq(Msg)
      BY <1>a, <1>0, Cutting, Sending, Messages
    <3>6. Count(toAgent', "write") = 0 /\ Count(toAgent, "write") = 0
      BY <1>a, <3>2, <3>4, <3>5, CountNone
    <3> QED  BY <1>1, <1>4, <2>2, <3>3, <3>6 DEF Counted
  <2>4. CASE Carries(toAgent', "end")
    <3>1. /\ toAgent' = Append(toAgent, Plain("bye")) /\ Plain("bye") \in Msg
          /\ Plain("bye").type = "bye"
      BY <1>3, <2>4, Messages DEF Plain
    <3>2. Carries(toAgent, "error") => Carries(toAgent', "error")
      BY <1>a, <3>1, CarriesQueue
    <3>3. Counted
      BY <1>6, <2>1, <2>2, <3>2 DEF Transfer, Whole, OnWay
    <3>4. Count(toAgent', "write") = Count(toAgent, "write") + 0
      BY <1>a, <3>1, CountSend
    <3>6. Count(toAgent, "write") \in Nat
      BY <1>a, CountNone
    <3>5. Count(toAgent', "write") = Count(toAgent, "write")
      BY <3>4, <3>6
    <3> QED  BY <1>1, <1>4, <2>2, <3>3, <3>5 DEF Counted
  <2> QED  BY <1>1, <2>1, <2>3, <2>4 DEF OnWay
<1> QED  BY <1>1, <1>6, <1>7, <1>8, <1>9, <1>10 DEF Transfer

LEMMA UploadEnd ==
  ASSUME Typed, Session, Upload, PutEnd
  PROVE  Upload'
<1>1. /\ blame' = blame \/ blame' = blame \cup {"lostEnd"}
      /\ UNCHANGED <<dir, toDevice, fd, name, disk, mFtp, toRelay, toClient,
                     relay, thread, sent>>
      /\ worker' = "idle" /\ worker \in {"put", "end"}
      /\ worker = "put" => sent = Chunks
      /\ toAgent' = Append(toAgent, Plain("end")) \/ toAgent' = toAgent
  BY DEF PutEnd, Finish
<1>2. blame \subseteq blame' /\ ("openFile" \in blame' <=> "openFile" \in blame)
  BY <1>1
<1>3. CASE toAgent' = Append(toAgent, Plain("end"))
  <2>1. Plain("end") \in Msg /\ Plain("end").type = "end"
    BY Messages DEF Plain
  <2>2. worker = "put" => Chunks = sent + 0
    BY <1>1, ChunksAssumption
  <2> QED  BY <1>1, <1>2, <1>3, <2>1, <2>2, UploadSent
<1>4. CASE toAgent' = toAgent
  <2>1. /\ Open' <=> Open
        /\ Written' = Written
        /\ \A f \in Files : Half(f)' <=> Half(f)
    BY <1>1, <1>2, SameOpen
  <2>2. \A t : OnWay(t)' <=> OnWay(t)
    BY <1>1, <1>4 DEF OnWay
  <2>3. Uploading' => Uploading
    BY <2>1, <2>2 DEF Uploading
  <2>4. Strayed => Strayed'
    BY <1>2 DEF Strayed
  <2> SUFFICES ASSUME Transfer PROVE Transfer'
    BY <2>3, <2>4 DEF Upload
  <2>5. OneOpen'
    BY <1>1, <2>1, <2>2 DEF Transfer, OneOpen
  <2>6. Answered' /\ Flagged'
    BY <1>1, <1>4 DEF Transfer, Flagged, Answered
  <2>7. Whole' => Counted'
    <3> HAVE Whole'
    <3>1. Whole
      BY <1>1, <1>2, <1>4, <2>2 DEF Whole
    <3>2. Counted /\ worker # "end"
      BY <3>1 DEF Transfer, Whole
    <3>3. (IF worker = "put" THEN sent ELSE Chunks) = Chunks
      BY <1>1
    <3> QED  BY <1>1, <1>4, <2>1, <3>2, <3>3 DEF Counted
  <2> QED  BY <1>1, <2>5, <2>6, <2>7 DEF Transfer
<1> QED  BY <1>1, <1>3, <1>4

LEMMA UploadForward ==
  ASSUME Typed, Session, Path, Upload, Forward
  PROVE  Upload'
<1>a. toAgent \in Seq(Msg) /\ toDevice \in Seq(Msg)
  BY Zenon DEF Typed, TypeOK, Channels
<1> SUFFICES ASSUME ~Strayed' PROVE Upload'
  BY DEF Upload
<1> DEFINE m == Head(toAgent)
<1>1. /\ toAgent # <<>> /\ toAgent' = Tail(toAgent) /\ m \in Msg
      /\ toDevice' = Append(toDevice, m) /\ m.type # "bye"
      /\ UNCHANGED <<dir, worker, sent, blame, fd, name, disk, toRelay, toClient,
                     relay, thread>>
      /\ m.type \in {"get", "put"} => mFtp' = 1
      /\ m.type \notin {"get", "put", "end", "error"} => mFtp' = mFtp
  BY <1>a, Taking DEF Forward, Strayed
<1>2. /\ \A t : Carries(toAgent, t) <=> m.type = t \/ Carries(toAgent', t)
      /\ \A t : Carries(toDevice', t) <=> Carries(toDevice, t) \/ m.type = t
  BY <1>a, <1>1, CarriesQueue
<1>3. Count(toAgent, "write")
        = Count(toAgent', "write") + (IF m.type = "write" THEN 1 ELSE 0)
  BY <1>a, <1>1, CountTake
<1>4. Count(toDevice', "write")
        = Count(toDevice, "write") + (IF m.type = "write" THEN 1 ELSE 0)
  BY <1>a, <1>1, CountSend
<1>5. toAgent' \in Seq(Msg)
  BY <1>a, <1>1, Taking
<1>6. /\ Count(toAgent', "write") \in Nat /\ Count(toAgent, "write") \in Nat
      /\ Count(toDevice, "write") \in Nat
  BY <1>a, <1>5, CountNone
<1> HIDE DEF m
<1>7. \A t : OnWay(t)' <=> OnWay(t)
  BY <1>2 DEF OnWay
<1>8. /\ Open' <=> Open
      /\ Written' = Written
      /\ \A f \in Files : Half(f)' <=> Half(f)
  BY <1>1, SameOpen
<1> SUFFICES ASSUME Transfer PROVE Transfer'
  BY <1>1, <1>7, <1>8 DEF Upload, Uploading, Strayed
<1>9. OneOpen'
  BY <1>1, <1>7, <1>8 DEF Transfer, OneOpen
<1>10. Answered' /\ dir' = "put" /\ (worker' = "end" => OnWay("error")')
  BY <1>1, <1>7 DEF Transfer, Answered
<1>11. Flagged'
  BY <1>1, <1>2 DEF Transfer, Flagged
<1>12. ASSUME Whole' PROVE Counted'
  <2>1. Whole
    BY <1>1, <1>2, <1>7, <1>12 DEF Whole
  <2>2. Written \in Int
    BY DEF Transfer, OneOpen, Written
  <2> DEFINE w == Written
             c == Count(toAgent, "write")
             e == Count(toDevice, "write")
             n == Count(toAgent', "write")
             k == IF m.type = "write" THEN 1 ELSE 0
  <2>3. w + c + e = (IF worker = "put" THEN sent ELSE Chunks)
    BY <2>1 DEF Transfer, Counted
  <2>4. w + n + (e + k) = w + c + e
    <3>1. c = n + k /\ n \in Int /\ c \in Int /\ e \in Int /\ w \in Int
          /\ k \in Int
      BY <1>3, <1>6, <2>2
    <3> HIDE DEF w, c, e, n, k
    <3> QED  BY <3>1
  <2> QED  BY <1>1, <1>4, <1>8, <2>3, <2>4 DEF Counted
<1> QED  BY <1>9, <1>10, <1>11, <1>12 DEF Transfer

LEMMA UploadExit ==
  ASSUME Typed, Session, Path, Upload, ExitClient
  PROVE  Upload'
<1>a. toAgent \in Seq(Msg) /\ toDevice \in Seq(Msg)
  BY Zenon DEF Typed, TypeOK, Channels
<1>0. CASE ~link
  <2>1. /\ toAgent' = Tail(toAgent) /\ toAgent # <<>>
        /\ Head(toAgent).type = "bye" /\ toDevice' = toDevice
        /\ UNCHANGED <<blame, fd, disk>>
    BY <1>0 DEF ExitClient
  <2>2. toAgent' = <<>>
    BY <1>a, <2>1, LastTake DEF Session
  <2>3. toDevice = <<>> /\ name = NoFile
    BY <1>0 DEF Typed, Down
  <2>4. ~OnWay("put")' /\ (Open' <=> Open)
    BY <2>1, <2>2, <2>3, Nothing, SameOpen DEF OnWay
  <2>5. ~Strayed => ~Open
    BY <2>3, FilesAssumption DEF Upload, Uploading, Transfer, OneOpen
  <2> QED  BY <2>1, <2>4, <2>5 DEF Upload, Uploading, Strayed
<1> SUFFICES ASSUME link PROVE Upload'
  BY <1>0
<1>1. /\ toAgent # <<>> /\ toAgent' = Tail(toAgent)
      /\ Head(toAgent).type = "bye"
      /\ toDevice' = IF mFtp = 1 THEN Append(toDevice, Plain("error"))
                     ELSE toDevice
      /\ UNCHANGED <<dir, worker, sent, blame, fd, name, disk, toRelay, toClient,
                     relay, thread>>
  BY DEF ExitClient
<1>2. toAgent' = <<>>
  BY <1>a, <1>1, LastTake DEF Session
<1>3. /\ \A t : ~Carries(toAgent', t)
      /\ \A t : t # "bye" => ~Carries(toAgent, t)
  <2>1. \A t : Carries(toAgent, t) <=>
                 Head(toAgent).type = t \/ Carries(toAgent', t)
    BY <1>a, <1>1, CarriesQueue
  <2> QED  BY <1>1, <1>2, <2>1, Nothing
<1>4. /\ Plain("error") \in Msg /\ Plain("error").type = "error"
  BY Messages DEF Plain
<1>5. \A t : Carries(toDevice', t) => Carries(toDevice, t) \/ t = "error"
  <2>1. CASE mFtp = 1
    BY <1>a, <1>1, <1>4, <2>1, CarriesQueue
  <2>2. CASE mFtp # 1
    BY <1>1, <2>2
  <2> QED  BY <2>1, <2>2
<1>6. mFtp = 1 => Carries(toDevice', "error")
  BY <1>a, <1>1, <1>4, CarriesQueue
<1>7. /\ Open' <=> Open
      /\ Written' = Written
      /\ \A f \in Files : Half(f)' <=> Half(f)
  BY <1>1, SameOpen
<1>8. OnWay("put")' => OnWay("put")
  BY <1>3, <1>5 DEF OnWay
<1> SUFFICES ASSUME Transfer, ~Strayed PROVE Transfer'
  BY <1>1, <1>7, <1>8 DEF Upload, Uploading, Strayed
<1>9. OneOpen'
  BY <1>1, <1>7, <1>8 DEF Transfer, OneOpen
<1>10. Answered' /\ dir' = "put"
  BY <1>1 DEF Transfer, Answered
<1>11. Carries(toDevice', "error") \/ Carries(toDevice, "error")
         \/ Carries(toDevice, "end")
  BY <1>3, <1>6 DEF Transfer, Flagged
<1>12. Flagged'
  <2>1. mFtp # 1 => toDevice' = toDevice
    BY <1>1
  <2> QED  BY <1>6, <1>11, <2>1 DEF Flagged
<1>13. worker' # "end"
  BY <1>1, <1>3, <1>a, CarriesQueue DEF Session
<1>14. ASSUME Whole' PROVE Counted'
  <2>1. ~Carries(toDevice', "error") /\ mFtp # 1 /\ toDevice' = toDevice
    BY <1>1, <1>6, <1>14 DEF Whole, OnWay
  <2>2. Carries(toDevice, "end")
    BY <1>11, <2>1
  <2>3. Whole
    BY <1>3, <2>1, <2>2 DEF Whole, OnWay
  <2>4. Counted
    BY <2>3 DEF Transfer
  <2>5. Count(toAgent', "write") = 0 /\ Count(toAgent, "write") = 0
    <3>1. toAgent' \in Seq(Msg)
      BY <1>2
    <3> QED  BY <1>a, <1>3, <3>1, CountNone
  <2> QED  BY <1>1, <1>7, <2>1, <2>4, <2>5 DEF Counted
<1> QED  BY <1>9, <1>10, <1>12, <1>13, <1>14 DEF Transfer

(* Between two transfers no file is half written, unless one stays open.   *)
LEMMA AtRest ==
  ASSUME Typed, Session, Upload, worker = "idle", toAgent = <<>>,
         toDevice = <<>>, ~Strayed, "unread" \notin blame \/ fd = NoFile
  PROVE  \A g \in Files : ~Half(g)
<1> SUFFICES ASSUME NEW g \in Files, Half(g) PROVE FALSE
  OBVIOUS
<1>1. \A t : ~Carries(toAgent, t) /\ ~Carries(toDevice, t)
  BY Nothing
<1>2. Transfer /\ Open
  BY DEF Upload, Uploading, Open
<1>3. g = fd /\ Written = disk[fd]
  BY <1>2 DEF Transfer, OneOpen, Written
<1>4. Whole
  BY <1>1, <1>3, FilesAssumption DEF Whole, OnWay
<1>5. Count(toAgent, "write") = 0 /\ Count(toDevice, "write") = 0
  <2>1. toAgent \in Seq(Msg) /\ toDevice \in Seq(Msg)
    BY Zenon DEF Typed, TypeOK, Channels
  <2> QED  BY <1>1, <2>1, CountNone
<1>6. Written + 0 + 0 = Chunks
  BY <1>2, <1>4, <1>5 DEF Transfer, Counted
<1>7. disk[fd] \in 0 .. Chunks - 1
  BY <1>3 DEF Half
<1> QED  BY <1>3, <1>6, <1>7, ChunksAssumption

LEMMA UploadStart ==
  ASSUME Typed, Session, Upload, NEW d \in {"put", "get"}, NEW f \in Files,
         Start(d, f)
  PROVE  Upload'
<1>a. toAgent \in Seq(Msg) /\ toDevice \in Seq(Msg)
  BY Zenon DEF Typed, TypeOK, Channels
<1>1. /\ toAgent' = Append(toAgent, [type |-> d, file |-> f])
      /\ up /\ worker = "idle"
      /\ dir' = d /\ sent' = 0 /\ blame' = blame \cup Remains
      /\ worker' = IF d = "put" THEN "put" ELSE "arm"
      /\ UNCHANGED <<toDevice, fd, disk, name, toRelay, toClient, relay, thread>>
  BY DEF Start
<1> SUFFICES ASSUME ~Strayed', Uploading' PROVE Transfer'
  BY DEF Upload
<1>2. /\ toAgent = <<>> /\ toDevice = <<>> /\ Answered /\ ~Strayed
      /\ fd # NoFile => "openFile" \in blame' /\ "unread" \notin blame
  BY <1>1, Starting
<1>3. PICK m \in Msg : m.type = d /\ toAgent' = Append(toAgent, m)
  BY <1>1, Messages
<1>4. /\ \A t : ~Carries(toAgent, t)
      /\ \A t : ~Carries(toDevice, t)
  BY <1>2, Nothing
<1>5. \A t : Carries(toAgent', t) <=> t = d
  BY <1>a, <1>3, <1>4, CarriesQueue
<1>6. Count(toAgent, "write") = 0 /\ Count(toDevice, "write") = 0
  BY <1>a, <1>4, CountNone
<1>7. Count(toAgent', "write") = 0
  <2>1. toAgent' \in Seq(Msg)
    BY <1>a, <1>3, Sending
  <2>2. ~Carries(toAgent', "write")
    BY <1>5
  <2> QED  BY <2>1, <2>2, CountNone
<1>8. \A g \in Files : ~Half(g)
  BY <1>1, <1>2, AtRest
<1>9. ~Open'
  <2>1. \A g \in Files : ~Half(g)'
    BY <1>1, <1>8 DEF Half
  <2>2. fd' \in Files => "openFile" \in blame'
    BY <1>1, <1>2, FilesAssumption
  <2> QED  BY <2>1, <2>2 DEF Open
<1>10. d = "put"
  BY <1>1, <1>4, <1>5, <1>9 DEF Uploading, OnWay
<1>11. OneOpen'
  BY <1>9 DEF OneOpen, Open
<1>12. Answered'
  BY <1>1, <1>2 DEF Answered
<1>13. Flagged'
  BY <1>5, <1>10 DEF Flagged
<1>14. Counted'
  <2>1. Written' = 0 /\ worker' = "put" /\ Count(toDevice', "write") = 0
    BY <1>1, <1>6, <1>9, <1>10 DEF Written
  <2> QED  BY <1>1, <1>7, <2>1 DEF Counted
<1> QED  BY <1>1, <1>10, <1>11, <1>12, <1>13, <1>14 DEF Transfer

(* A task that ends before its request, and the loss of the connection to  *)
(* the daemon while nothing is under way.                                  *)
LEMMA UploadNever ==
  ASSUME Typed, Session, Upload,
         LinkLost \/ \E d \in {"put", "get"}, f \in Files : StartFails(d, f)
  PROVE  Upload'
<1>a. toAgent \in Seq(Msg) /\ toDevice \in Seq(Msg)
  BY Zenon DEF Typed, TypeOK, Channels
<1> SUFFICES ASSUME ~Strayed' PROVE ~Uploading'
  BY DEF Upload
<1>1. /\ worker = "idle" /\ ~Strayed /\ toAgent = <<>> /\ toDevice = <<>>
      /\ toAgent' = <<>> /\ toDevice' = <<>> /\ disk' = disk
      /\ "unread" \notin blame \/ fd = NoFile
      /\ fd' \notin Files \/ "openFile" \in blame'
  <2>1. CASE LinkLost
    <3>1. Remains = {} /\ worker = "idle" /\ blame \subseteq blame'
      BY <2>1 DEF LinkLost, Strayed
    <3>2. fd = NoFile /\ toAgent = <<>> /\ toDevice = <<>>
      BY <1>a, <3>1 DEF Remains
    <3>3. fd' \notin Files /\ UNCHANGED <<toAgent, disk>> /\ toDevice' = <<>>
      BY <2>1, FilesAssumption DEF LinkLost, FreshFd
    <3> QED  BY <3>1, <3>2, <3>3 DEF Strayed
  <2>2. ASSUME NEW d \in {"put", "get"}, NEW f \in Files, StartFails(d, f)
        PROVE  /\ worker = "idle" /\ ~Strayed /\ toAgent = <<>>
               /\ toDevice = <<>> /\ UNCHANGED <<toAgent, toDevice, disk, fd>>
               /\ fd = NoFile \/ ("openFile" \in blame' /\ "unread" \notin blame)
    <3>1. /\ worker = "idle" /\ UNCHANGED <<toAgent, toDevice, disk, fd>>
          /\ blame' = blame \cup Remains \cup {"unopened"}
      BY <2>2 DEF StartFails
    <3> QED  BY <3>1, Starting
  <2> QED  BY <2>1, <2>2, FilesAssumption
<1>2. \A g \in Files : ~Half(g)'
  BY <1>1, AtRest DEF Half
<1>3. ~OnWay("put")'
  BY <1>1, Nothing DEF OnWay
<1> QED  BY <1>1, <1>2, <1>3 DEF Uploading, Open

(* The local file fails in the middle of an upload, or at its end.         *)
LEMMA UploadUnread ==
  ASSUME Typed, Session, Path, Upload, PutFails
  PROVE  Upload'
<1>1. /\ blame' = blame \cup {"unread"} /\ worker' = "idle"
      /\ worker \in {"put", "end"}
      /\ UNCHANGED <<dir, toAgent, toDevice, fd, name, disk, mFtp, toRelay,
                     toClient, relay, thread>>
  BY DEF PutFails, Finish
<1> SUFFICES ASSUME ~Strayed', Uploading' PROVE Transfer'
  BY DEF Upload
<1>2. /\ Open' <=> Open
      /\ \A f \in Files : Half(f)' <=> Half(f)
  BY <1>1, SameOpen
<1>3. \A t : OnWay(t)' <=> OnWay(t)
  BY <1>1 DEF OnWay
<1>4. Transfer /\ Ordered
  BY <1>1, <1>2, <1>3 DEF Upload, Uploading, Path, Strayed
<1>5. ~OnWay("end")
  BY <1>1, <1>4 DEF Ordered
<1>6. ~Whole'
  BY <1>1, <1>3, <1>5 DEF Whole
<1>7. OneOpen' /\ Answered' /\ Flagged'
  BY <1>1, <1>2, <1>3, <1>4 DEF Transfer, OneOpen, Answered, Flagged
<1> QED  BY <1>1, <1>4, <1>6, <1>7 DEF Transfer

(* The daemon opens the file of an upload.                                 *)
LEMMA UploadOpen ==
  ASSUME Typed, Session, Path, Upload, OnFileUploadReq
  PROVE  Upload'
<1>a. toAgent \in Seq(Msg) /\ toDevice \in Seq(Msg)
  BY Zenon DEF Typed, TypeOK, Channels
<1>1. /\ toDevice # <<>> /\ toDevice' = Tail(toDevice)
      /\ Head(toDevice).type = "put" /\ name' = Head(toDevice).file
      /\ UNCHANGED <<toAgent, dir, worker, sent, blame, mFtp, toClient, relay,
                     thread>>
      /\ \/ /\ fd' = name' /\ disk' = [disk EXCEPT ![name'] = 0]
            /\ toRelay' = toRelay
         \/ fd' = NoFile /\ disk' = disk
  BY DEF OnFileUploadReq, Arrived
<1> SUFFICES ASSUME ~Strayed, Uploading' PROVE Transfer'
  BY <1>1 DEF Upload, Strayed
<1>2. /\ ~Carries(toAgent, "put") /\ ~OnWay("put")'
      /\ \A t : Carries(toDevice, t) <=>
                  Head(toDevice).type = t \/ Carries(toDevice', t)
      /\ Count(toDevice, "write") = Count(toDevice', "write")
           + (IF Head(toDevice).type = "write" THEN 1 ELSE 0)
      /\ Head(toDevice) \in Msg
  BY <1>1, DaemonTakes
<1>3. OnWay("put") /\ name' \in Files
  BY <1>1, <1>2, Fields DEF OnWay
<1>4. Transfer /\ ~Open
  BY <1>3 DEF Upload, Uploading, Transfer, OneOpen
<1>5. \A f \in Files : ~Half(f)
  BY <1>4 DEF Open
<1>6. Open'
  BY <1>2 DEF Uploading
<1>7. fd' = name' /\ disk' = [disk EXCEPT ![name'] = 0] /\ toRelay' = toRelay
  <2>1. CASE fd' = NoFile /\ disk' = disk
    BY <1>5, <1>6, <2>1, FilesAssumption DEF Open, Half
  <2> QED  BY <1>1, <2>1
<1>8. disk'[fd'] = 0 /\ disk'[fd'] \in 0 .. Chunks
  BY <1>3, <1>7, ChunksAssumption DEF Typed, TypeOK
<1>9. ASSUME NEW f \in Files, Half(f)' PROVE f = fd'
  BY <1>3, <1>5, <1>7, <1>9 DEF Half, Typed, TypeOK
<1>10. OneOpen'
  BY <1>2, <1>3, <1>7, <1>8, <1>9 DEF OneOpen
<1>11. Answered' /\ dir' = "put"
  BY <1>1, <1>4, <1>7 DEF Transfer, Answered
<1>12. Flagged'
  BY <1>1, <1>2, <1>4 DEF Transfer, Flagged
<1>13. /\ OnWay("error")' <=> OnWay("error")
       /\ OnWay("end")' <=> OnWay("end")
  BY <1>1, <1>2 DEF OnWay
<1>14. ASSUME Whole' PROVE Counted'
  <2>1. Counted
    BY <1>1, <1>4, <1>13, <1>14 DEF Whole, Transfer
  <2>2. Written = 0 /\ Written' = 0
    BY <1>4, <1>6, <1>8 DEF Written
  <2>3. Count(toDevice', "write") = Count(toDevice, "write")
    <3>1. Count(toDevice', "write") \in Nat
      BY <1>a, <1>1, Taking, CountNone
    <3> QED  BY <1>1, <1>2, <3>1
  <2> QED  BY <1>1, <2>1, <2>2, <2>3 DEF Counted
<1> QED  BY <1>1, <1>4, <1>10, <1>11, <1>12, <1>13, <1>14 DEF Transfer

(* The daemon writes a block.                                              *)
LEMMA UploadWrite ==
  ASSUME Typed, Session, Path, Upload, OnFileWrite
  PROVE  Upload'
<1>a. toAgent \in Seq(Msg) /\ toDevice \in Seq(Msg)
  BY Zenon DEF Typed, TypeOK, Channels
<1>1. /\ toDevice # <<>> /\ toDevice' = Tail(toDevice)
      /\ Head(toDevice).type = "write"
      /\ UNCHANGED <<toAgent, dir, worker, sent, blame, mFtp, toClient, relay,
                     thread>>
      /\ \/ /\ fd \in Files /\ UNCHANGED <<name, fd, toRelay>>
            /\ disk' = [disk EXCEPT ![fd] =
                          IF @ \in 0 .. Chunks - 1 THEN @ + 1 ELSE @]
         \/ CloseUndone
  BY DEF OnFileWrite, Arrived
<1> SUFFICES ASSUME ~Strayed, Uploading' PROVE Transfer'
  BY <1>1 DEF Upload, Strayed
<1>2. /\ ~Carries(toAgent, "put") /\ ~OnWay("put")' /\ ~OnWay("put")
      /\ \A t : Carries(toDevice, t) <=>
                  Head(toDevice).type = t \/ Carries(toDevice', t)
      /\ Count(toDevice, "write") = Count(toDevice', "write")
           + (IF Head(toDevice).type = "write" THEN 1 ELSE 0)
  BY <1>1, DaemonTakes
<1>3. Open'
  BY <1>2 DEF Uploading
<1>4. /\ fd \in Files /\ UNCHANGED <<name, fd, toRelay>>
      /\ disk' = [disk EXCEPT ![fd] =
                    IF @ \in 0 .. Chunks - 1 THEN @ + 1 ELSE @]
  BY <1>1, <1>3, Closed
<1>5. /\ \A f \in Files : f # fd => disk'[f] = disk[f]
      /\ disk[fd] \in 0 .. Chunks - 1 => disk'[fd] = disk[fd] + 1
      /\ disk[fd] \notin 0 .. Chunks - 1 => disk'[fd] = disk[fd]
  BY <1>4 DEF Typed, TypeOK
<1>6. \A f \in Files : Half(f)' => Half(f)
  BY <1>4, <1>5 DEF Half
<1>7. Open
  BY <1>1, <1>3, <1>4, <1>6 DEF Open
<1>8. Transfer
  BY <1>7 DEF Upload, Uploading
<1>9. disk[fd] \in 0 .. Chunks /\ name = fd
  BY <1>7, <1>8 DEF Transfer, OneOpen
<1>10. disk'[fd] \in 0 .. Chunks
  BY <1>5, <1>9, ChunksAssumption
<1>11. OneOpen'
  BY <1>2, <1>4, <1>6, <1>8, <1>9, <1>10 DEF Transfer, OneOpen
<1>12. Answered' /\ dir' = "put"
  BY <1>1, <1>4, <1>8 DEF Transfer, Answered
<1>13. Flagged'
  BY <1>1, <1>2, <1>8 DEF Transfer, Flagged
<1>14. /\ OnWay("error")' <=> OnWay("error")
       /\ OnWay("end")' <=> OnWay("end")
  BY <1>1, <1>2 DEF OnWay
<1>15. ASSUME Whole' PROVE Counted'
  <2>1. Counted
    BY <1>1, <1>8, <1>14, <1>15 DEF Whole, Transfer
  <2> DEFINE w == disk[fd]
             c == Count(toAgent, "write")
             e == Count(toDevice', "write")
             s == IF worker = "put" THEN sent ELSE Chunks
  <2>2. /\ c \in Nat /\ e \in Nat /\ Count(toDevice, "write") = e + 1
    <3>1. toDevice' \in Seq(Msg)
      BY <1>a, <1>1, Taking
    <3> QED  BY <1>a, <1>1, <1>2, <3>1, CountNone
  <2>3. w + c + (e + 1) = s
    <3>1. Written = w
      BY <1>7 DEF Written
    <3> QED  BY <2>1, <2>2, <3>1 DEF Counted
  <2>4. s \in 0 .. Chunks /\ w \in 0 .. Chunks
    BY <1>9, ChunksAssumption DEF Session
  <2>5. w \in 0 .. Chunks - 1 /\ (w + 1) + c + e = s
    <3> HIDE DEF w, c, e, s
    <3> QED  BY <2>2, <2>3, <2>4, ChunksAssumption
  <2>6. Written' = w + 1
    BY <1>3, <1>4, <1>5, <2>5 DEF Written
  <2> QED  BY <1>1, <2>5, <2>6 DEF Counted
<1> QED  BY <1>1, <1>8, <1>11, <1>12, <1>13, <1>14, <1>15 DEF Transfer

(* The daemon takes the end of an upload: its file is whole.               *)
LEMMA UploadClose ==
  ASSUME Typed, Session, Path, Upload, OnFileEnd
  PROVE  Upload'
<1>a. toAgent \in Seq(Msg) /\ toDevice \in Seq(Msg)
  BY Zenon DEF Typed, TypeOK, Channels
<1>1. /\ toDevice # <<>> /\ toDevice' = Tail(toDevice)
      /\ Head(toDevice).type = "end" /\ fd' = NoFile
      /\ UNCHANGED <<toAgent, blame, disk>>
  BY DEF OnFileEnd, Arrived
<1> SUFFICES ASSUME ~Strayed, Uploading' PROVE FALSE
  BY <1>1 DEF Upload, Strayed
<1>2. /\ ~OnWay("put")'
      /\ \A t : Carries(toDevice, t) <=>
                  Head(toDevice).type = t \/ Carries(toDevice', t)
      /\ Count(toDevice, "write") = Count(toDevice', "write")
           + (IF Head(toDevice).type = "write" THEN 1 ELSE 0)
      /\ toDevice' = <<>> /\ OnlyBye(toAgent) /\ worker \notin {"put", "end"}
  BY <1>1, DaemonTakes
<1>3. PICK f \in Files : Half(f)
  BY <1>1, <1>2, FilesAssumption DEF Uploading, Open, Half
<1>4. Transfer /\ Open
  BY <1>3 DEF Upload, Uploading, Open
<1>5. \A t : t # "bye" => ~Carries(toAgent, t)
  BY <1>a, <1>2, LastOnly
<1>6. ~Carries(toDevice', "error") /\ ~Carries(toDevice', "write")
  BY <1>2, Nothing
<1>7. Whole
  BY <1>1, <1>2, <1>5, <1>6 DEF Whole, OnWay
<1>8. Count(toAgent, "write") = 0 /\ Count(toDevice, "write") = 0
  BY <1>a, <1>1, <1>2, <1>5, <1>6, CountNone
<1>9. Written + 0 + 0 = Chunks
  BY <1>2, <1>4, <1>7, <1>8 DEF Transfer, Counted
<1>10. f = fd /\ Written = disk[fd] /\ disk[fd] \in 0 .. Chunks - 1
  BY <1>3, <1>4 DEF Transfer, OneOpen, Written, Half
<1> QED  BY <1>9, <1>10, ChunksAssumption

(* The daemon takes the end of a transfer by an error.                     *)
LEMMA UploadErr ==
  ASSUME Typed, Session, Path, Upload, OnFileErr
  PROVE  Upload'
<1>1. /\ toDevice # <<>> /\ toDevice' = Tail(toDevice)
      /\ Head(toDevice).type = "error"
      /\ CloseUndone \/ (fd = NoFile /\ UNCHANGED <<fd, name, disk>>)
      /\ UNCHANGED <<toAgent, blame>>
  BY DEF OnFileErr, Arrived
<1> SUFFICES ASSUME ~Strayed, Uploading' PROVE FALSE
  BY <1>1 DEF Upload, Strayed
<1>2. ~OnWay("put")'
  BY <1>1, DaemonTakes
<1>3. Open'
  BY <1>2 DEF Uploading
<1>4. fd = NoFile /\ UNCHANGED <<fd, name, disk>>
  BY <1>1, <1>3, Closed
<1>5. Open
  BY <1>1, <1>3, <1>4, SameOpen
<1> QED  BY <1>4, <1>5, FilesAssumption DEF Upload, Uploading, Transfer, OneOpen

(* A request that fails, and a request for a download.                     *)
LEMMA UploadRefused ==
  ASSUME Typed, Session, Path, Upload, ConvertFails \/ OnFileDownloadReq
  PROVE  Upload'
<1>1. /\ toDevice # <<>> /\ toDevice' = Tail(toDevice)
      /\ Head(toDevice).type \in {"get", "put"}
      /\ blame' = blame \/ blame' = blame \cup {"oldName"}
      /\ UNCHANGED <<toAgent, fd, disk>>
  BY DEF ConvertFails, OnFileDownloadReq, Arrived
<1> SUFFICES ASSUME ~Strayed, Uploading' PROVE FALSE
  BY <1>1 DEF Upload, Strayed
<1>2. /\ ~OnWay("put")'
      /\ Head(toDevice).type = "get" => dir = "get"
      /\ \A t : Carries(toDevice, t) <=>
                  Head(toDevice).type = t \/ Carries(toDevice', t)
  BY <1>1, DaemonTakes
<1>3. Open
  <2>1. Open' <=> Open
    BY <1>1, SameOpen
  <2> QED  BY <1>2, <2>1 DEF Uploading
<1>4. Transfer
  BY <1>3 DEF Upload, Uploading
<1>5. Head(toDevice).type = "put"
  BY <1>1, <1>2, <1>4 DEF Transfer
<1>6. OnWay("put")
  BY <1>2, <1>5 DEF OnWay
<1> QED  BY <1>3, <1>4, <1>6 DEF Transfer, OneOpen

LEMMA NextUpload ==
  ASSUME Typed, Session, Path, Upload, [Next]_vars
  PROVE  Upload'
<1>m. Plain("error") \in Msg /\ Plain("error").type = "error"
  BY Messages DEF Plain
<1>1. CASE Connect
  BY <1>1, UploadQuiet DEF Connect, Session, Answered
<1>2. CASE Cancel
  BY <1>2, UploadQuiet DEF Cancel, Answered
<1>3. CASE Break
  BY <1>3, UploadBreak
<1>4. CASE PutChunk
  <2>1. PICK m \in Msg : m.type = "write" /\ toAgent' = Append(toAgent, m)
    BY <1>4, Messages DEF PutChunk, Typed, Working
  <2>2. /\ UNCHANGED <<dir, toDevice, fd, name, disk, mFtp, toRelay, toClient,
                       relay, thread, blame, worker>>
        /\ worker = "put" /\ sent' = sent + 1
    BY <1>4 DEF PutChunk
  <2> QED  BY <2>1, <2>2, UploadSent
<1>5. CASE PutCancel
  <2>1. /\ UNCHANGED <<dir, toDevice, fd, name, disk, mFtp, toRelay, toClient,
                       relay, thread, blame>>
        /\ worker = "put" /\ toAgent' = Append(toAgent, Plain("error"))
    BY <1>5 DEF PutCancel
  <2> QED  BY <1>m, <2>1, UploadSent
<1>6. CASE PutEnd
  BY <1>6, UploadEnd
<1>7. CASE GetArm \/ GetLast \/ GetChunk \/ GetStored
  <2>1. /\ blame \subseteq blame'
        /\ "openFile" \in blame' <=> "openFile" \in blame
    BY <1>7 DEF GetArm, GetLast, GetChunk, GetStored
  <2>2. /\ UNCHANGED <<dir, toAgent, toDevice, fd, name, disk, mFtp, toRelay,
                       toClient, relay, thread>>
        /\ worker \notin {"put", "end"} /\ worker' \notin {"put", "end"}
    BY <1>7 DEF GetArm, GetLast, GetChunk, GetStored, Finish
  <2> QED  BY <2>1, <2>2, UploadQuiet DEF Answered
<1>8. CASE GetCancel \/ GetFails
  <2>1. /\ UNCHANGED <<toDevice, fd, disk>> /\ dir # "put"
        /\ blame' = blame \/ blame' = blame \cup {"local"}
        /\ toAgent' = Append(toAgent, Plain("error"))
    BY <1>8 DEF GetCancel, GetFails, Session
  <2> QED  BY <1>m, <2>1, UploadOther
<1>9. CASE ReadData \/ ReadError
  <2>a. waiting \in Nat /\ toClient \in Seq(Msg)
    BY Zenon DEF Typed, TypeOK, Channels
  <2>1. /\ UNCHANGED <<dir, toAgent, toDevice, fd, name, disk, worker, sent>>
        /\ blame' = blame \/ blame' = blame \cup {"slow"}
        /\ toClient # <<>>
    BY <1>9, <2>a DEF ReadData, ReadError, Readable
  <2> QED  BY <2>1, UploadQuiet DEF Answered
<1>10. CASE Forward
  BY <1>10, UploadForward
<1>11. CASE ExitClient
  BY <1>11, UploadExit
<1>12. CASE Relay \/ RelayClear
  <2>1. /\ UNCHANGED <<dir, toAgent, toDevice, fd, name, disk, worker, sent,
                       blame>>
        /\ toRelay # <<>> \/ relay = "clear"
    BY <1>12 DEF Relay, RelayClear
  <2> QED  BY <2>1, UploadQuiet DEF Answered
<1>13. CASE Daemon
  BY <1>13, UploadRefused, UploadOpen, UploadWrite, UploadClose, UploadErr
  DEF Daemon
<1>14. ASSUME NEW d \in {"put", "get"}, NEW f \in Files, Start(d, f)
       PROVE  Upload'
  BY <1>14, UploadStart
<1>15. ASSUME NEW j \in Jobs, Download(j)
       PROVE  Upload'
  <2>1. /\ UNCHANGED <<dir, toAgent, toDevice, fd, name, disk, worker, sent,
                       blame>>
        /\ thread[j].pc # "none"
    BY <1>15 DEF Download, ThreadStat, ThreadOpen, ThreadRead, ThreadStopped,
       ThreadExit
  <2> QED  BY <2>1, UploadQuiet DEF Answered
<1>16. CASE UNCHANGED vars
  BY <1>16, UploadQuiet DEF vars, Answered
<1>17. CASE Shut \/ OtherArrives \/ RestartFbc
  BY <1>17, UploadQuiet DEF Shut, OtherArrives, RestartFbc, Finish, Answered
<1>18. CASE PutFails
  BY <1>18, UploadUnread
<1>19. CASE LinkLost \/ \E d \in {"put", "get"}, f \in Files : StartFails(d, f)
  BY <1>19, UploadNever
<1>20. CASE GivesUp
  BY <1>20 DEF GivesUp, Upload, Strayed
<1> QED
  BY <1>1, <1>2, <1>3, <1>4, <1>5, <1>6, <1>7, <1>8, <1>9, <1>10, <1>11,
     <1>12, <1>13, <1>14, <1>15, <1>16, <1>17, <1>18, <1>19, <1>20
  DEF Next, User, Environment, Task, Reader, ClientThread, ScreenThread

-----------------------------------------------------------------------------
(* A download. While a task waits for its file, the request is on the way, *)
(* or one thread looks for the file or reads it, or none does any more;    *)
(* the blocks in the local file, the buffer and the connections and those  *)
(* that the thread has still to read are those of the file, and nothing    *)
(* follows its end.                                                        *)

OwnData(q, f) == \A i \in 1 .. Len(q) : q[i].type = "data" => q[i].file = f
LastLast(q) == \A i \in 1 .. Len(q) - 1 : q[i].type # "last"

InBuffer == IF buf \in Files /\ worker # "store" THEN 1 ELSE 0
Data == sent + InBuffer + Count(toClient, "data") + Count(toRelay, "data")
NoLast == buf # "last" /\ ~Carries(toClient, "last") /\ ~Carries(toRelay, "last")
Answers ==
  /\ OwnData(toClient, file) /\ OwnData(toRelay, file)
  /\ buf \in {"clear", "last", file}
  /\ LastLast(toClient) /\ LastLast(toRelay)
  /\ Carries(toClient, "last") => toRelay = <<>>
  /\ buf = "last" => toRelay = <<>> /\ toClient = <<>>
  /\ worker = "store" => buf = file

Request == [type |-> "get", file |-> file]
Quiescent == toAgent = <<>> /\ toDevice = <<>>
Alone(j) == \A i \in Jobs \ {j} : thread[i].pc = "none"
Asked ==
  /\ \/ toAgent = <<Request>> /\ toDevice = <<>>
     \/ toAgent = <<>> /\ toDevice = <<Request>>
  /\ \A j \in Jobs : thread[j].pc = "none"
  /\ Data = 0 /\ NoLast
Looking ==
  /\ Quiescent /\ name = file /\ Data = 0 /\ NoLast
  /\ \E j \in Jobs : Alone(j) /\ thread[j].pc \in {"stat", "open"}
Serving ==
  /\ Quiescent /\ NoLast
  /\ \E j \in Jobs : /\ Alone(j) /\ thread[j].pc = "loop"
                     /\ thread[j].file = file
                     /\ Data + thread[j].left = Chunks
Served ==
  /\ Quiescent /\ \A j \in Jobs : thread[j].pc \in {"none", "exit"}
  /\ NoLast \/ Data = Chunks
Stage == Asked \/ Looking \/ Serving \/ Served

Spoilt ==
  blame \cap {"answers", "requests", "slow", "arming", "wiped", "local",
             "unopened", "unread", "lag", "link"} # {}
Receiving == worker \in {"arm", "get", "store"} /\ ~stopJob
Fetch == ~Spoilt /\ Receiving => Answers /\ Stage

LEMMA AnswerSend ==
  ASSUME NEW q \in Seq(Msg), NEW m \in Msg, NEW f
  PROVE  /\ OwnData(q, f) /\ (m.type = "data" => m.file = f)
              => OwnData(Append(q, m), f)
         /\ ~Carries(q, "last") => LastLast(Append(q, m))
<1> DEFINE r == Append(q, m)
<1>1. Len(q) \in Nat /\ Len(r) = Len(q) + 1 /\ r[Len(q) + 1] = m
  OBVIOUS
<1>2. \A i \in 1 .. Len(q) : r[i] = q[i]
  OBVIOUS
<1> HIDE DEF r
<1>3. OwnData(q, f) /\ (m.type = "data" => m.file = f) => OwnData(r, f)
  BY <1>1, <1>2 DEF OwnData
<1>4. ~Carries(q, "last") => LastLast(r)
  BY <1>1, <1>2 DEF Carries, LastLast
<1> QED  BY <1>3, <1>4 DEF r

LEMMA AnswerTake ==
  ASSUME NEW q \in Seq(Msg), q # <<>>, NEW f
  PROVE  /\ OwnData(q, f) => OwnData(Tail(q), f)
         /\ OwnData(q, f) /\ Head(q).type = "data" => Head(q).file = f
         /\ LastLast(q) => LastLast(Tail(q))
         /\ LastLast(q) /\ Head(q).type = "last" => Tail(q) = <<>>
<1> DEFINE r == Tail(q)
<1>1. /\ Len(q) \in Nat \ {0} /\ Len(r) = Len(q) - 1 /\ Head(q) = q[1]
      /\ r \in Seq(Msg) /\ (Len(r) = 0 => r = <<>>)
  OBVIOUS
<1>2. \A i \in 1 .. Len(r) : r[i] = q[i + 1] /\ i + 1 \in 1 .. Len(q)
  BY <1>1
<1> HIDE DEF r
<1>3. OwnData(q, f) => OwnData(r, f)
  BY <1>1, <1>2 DEF OwnData
<1>4. OwnData(q, f) /\ Head(q).type = "data" => Head(q).file = f
  BY <1>1 DEF OwnData
<1>5. ASSUME LastLast(q) PROVE LastLast(r)
  <2> SUFFICES ASSUME NEW i \in 1 .. Len(r) - 1 PROVE r[i].type # "last"
    BY DEF LastLast
  <2>1. r[i] = q[i + 1] /\ i + 1 \in 1 .. Len(q) - 1
    BY <1>1, <1>2
  <2> QED  BY <1>5, <2>1 DEF LastLast
<1>6. LastLast(q) /\ Head(q).type = "last" => r = <<>>
  BY <1>1 DEF LastLast
<1> QED  BY <1>3, <1>4, <1>5, <1>6 DEF r

LEMMA AnswerNone ==
  \A f : OwnData(<<>>, f) /\ LastLast(<<>>)
<1>1. Len(<<>>) = 0
  OBVIOUS
<1> QED  BY <1>1 DEF OwnData, LastLast

LEMMA DataType ==
  ASSUME Typed
  PROVE  /\ sent \in Nat /\ InBuffer \in {0, 1}
         /\ Count(toClient, "data") \in Nat /\ Count(toRelay, "data") \in Nat
         /\ Data \in Nat /\ sent + InBuffer <= Data
<1>1. toClient \in Seq(Msg)
  BY Zenon DEF Typed, TypeOK, Channels
<1>2. toRelay \in Seq(Msg)
  BY Zenon DEF Typed, TypeOK, Channels
<1>3. Count(toClient, "data") \in Nat /\ Count(toRelay, "data") \in Nat
  BY <1>1, <1>2, CountNone
<1>4. sent \in Nat
  BY ChunksAssumption DEF Typed, TypeOK
<1>5. InBuffer \in {0, 1}
  BY DEF InBuffer
<1> QED  BY <1>3, <1>4, <1>5 DEF Data

(* A step that moves data, and not the request or the thread.              *)
LEMMA StageSame ==
  ASSUME Stage, UNCHANGED <<toAgent, toDevice, name, file, thread>>,
         NoLast' <=> NoLast, Data' = Data \/ (NoLast /\ Served)
  PROVE  Stage'
<1>1. CASE Data' = Data
  BY <1>1 DEF Stage, Asked, Looking, Serving, Served, Request, Quiescent, Alone
<1>2. CASE NoLast /\ Served
  BY <1>2 DEF Stage, Served, Quiescent
<1> QED  BY <1>1, <1>2

LEMMA FetchQuiet ==
  ASSUME Fetch, blame \subseteq blame',
         UNCHANGED <<file, worker, sent, buf, stopJob, toAgent, toDevice,
                     toRelay, toClient, name, thread>>
  PROVE  Fetch'
<1>1. Spoilt => Spoilt'
  BY DEF Spoilt
<1>2. Data' = Data
  BY DEF Data, InBuffer
<1>3. NoLast' <=> NoLast
  BY DEF NoLast
<1>4. Stage => Stage'
  BY <1>2, <1>3, StageSame
<1>5. Answers => Answers'
  BY DEF Answers
<1> QED  BY <1>1, <1>4, <1>5 DEF Fetch, Receiving

(* The task stores what the buffer holds.                                  *)
LEMMA FetchChunk ==
  ASSUME Typed, Fetch, GetChunk
  PROVE  Fetch'
<1>1. /\ worker = "get" /\ worker' = "store" /\ buf \in Files /\ ~stopJob
      /\ sent' = IF buf = file /\ sent < Chunks THEN sent + 1 ELSE Chunks + 1
      /\ UNCHANGED <<file, buf, stopJob, toAgent, toDevice, toRelay, toClient,
                     name, thread, blame>>
  BY DEF GetChunk
<1> SUFFICES ASSUME ~Spoilt PROVE Answers' /\ Stage'
  BY <1>1 DEF Fetch, Spoilt
<1>2. Answers /\ Stage
  BY <1>1 DEF Fetch, Receiving
<1>3. buf = file
  BY <1>1, <1>2, FilesAssumption DEF Answers
<1>4. Answers'
  BY <1>1, <1>2, <1>3 DEF Answers
<1>5. NoLast' <=> NoLast
  BY <1>1 DEF NoLast
<1>6. /\ sent \in Nat /\ InBuffer = 1 /\ InBuffer' = 0 /\ Data \in Nat
      /\ Count(toClient, "data") \in Nat /\ Count(toRelay, "data") \in Nat
      /\ sent + 1 <= Data
  BY <1>1, DataType DEF InBuffer
<1>7. sent < Chunks => Data' = Data
  <2> HAVE sent < Chunks
  <2>1. sent' = sent + 1
    BY <1>1, <1>3
  <2> DEFINE c == Count(toClient, "data")
             r == Count(toRelay, "data")
  <2>2. Data = sent + 1 + c + r /\ Data' = (sent + 1) + 0 + c + r
    BY <1>1, <1>6, <2>1 DEF Data
  <2> HIDE DEF c, r
  <2>3. c \in Nat /\ r \in Nat
    BY <1>6 DEF c, r
  <2> QED  BY <1>6, <2>2, <2>3
<1>8. sent < Chunks \/ (NoLast /\ Served)
  <2>1. CASE Asked \/ Looking
    BY <1>6, <2>1 DEF Asked, Looking
  <2>2. CASE Serving
    <3>1. PICK j \in Jobs : Data + thread[j].left = Chunks
      BY <2>2 DEF Serving
    <3>2. thread[j].left \in Nat
      BY ChunksAssumption DEF Typed, TypeOK, Threads
    <3> QED  BY <1>6, <3>1, <3>2, ChunksAssumption
  <2>3. CASE Served
    BY <1>6, <2>3, ChunksAssumption DEF Served
  <2> QED  BY <1>2, <2>1, <2>2, <2>3 DEF Stage
<1>9. Stage'
  BY <1>1, <1>2, <1>5, <1>7, <1>8, StageSame
<1> QED  BY <1>4, <1>9

LEMMA FetchStored ==
  ASSUME Typed, Session, Fetch, GetArm \/ GetStored
  PROVE  Fetch'
<1>1. /\ worker \in {"arm", "store"} /\ worker' = "get" /\ buf' = "clear"
      /\ worker = "arm" => buf = "clear" \/ "arming" \in blame'
      /\ blame \subseteq blame'
      /\ UNCHANGED <<file, sent, stopJob, toAgent, toDevice, toRelay, toClient,
                     name, thread>>
  BY DEF GetArm, GetStored
<1> SUFFICES ASSUME ~Spoilt', ~stopJob PROVE Answers' /\ Stage'
  BY <1>1 DEF Fetch, Receiving
<1>2. ~Spoilt /\ "arming" \notin blame'
  BY <1>1 DEF Spoilt
<1>3. Answers /\ Stage
  BY <1>1, <1>2 DEF Fetch, Receiving
<1>4. worker = "store" => buf = file /\ file \in Files
  BY <1>3 DEF Answers, Typed, Working
<1>5. buf # "last"
  BY <1>1, <1>2, <1>4, FilesAssumption
<1>6. Answers'
  BY <1>1, <1>3 DEF Answers
<1>7. NoLast' <=> NoLast
  BY <1>1, <1>5 DEF NoLast
<1>8. InBuffer = 0 /\ InBuffer' = 0
  BY <1>1, <1>2, FilesAssumption DEF InBuffer
<1>9. Data' = Data
  BY <1>1, <1>8 DEF Data
<1>10. Stage'
  BY <1>1, <1>3, <1>7, <1>9, StageSame
<1> QED  BY <1>6, <1>10

(* The reader puts an answer into the buffer.                              *)
LEMMA FetchRead ==
  ASSUME Typed, Fetch, ReadData
  PROVE  Fetch'
<1>a. toClient \in Seq(Msg)
  BY Zenon DEF Typed, TypeOK, Channels
<1> DEFINE m == Head(toClient)
<1>1. /\ toClient # <<>> /\ toClient' = Tail(toClient) /\ m \in Msg
      /\ m.type \in {"data", "last"} /\ blame \subseteq blame'
      /\ ~stopJob => \/ buf = "clear" /\ buf' = Held(m)
                     \/ "slow" \in blame'
      /\ UNCHANGED <<file, worker, sent, stopJob, toAgent, toDevice, toRelay,
                     name, thread>>
  <2>1. waiting \in Nat
    BY Zenon DEF Typed, TypeOK
  <2> QED  BY <1>a, <2>1, Taking DEF ReadData, Readable, Read
<1>b. /\ \A t : Carries(toClient, t) <=> m.type = t \/ Carries(toClient', t)
      /\ OwnData(toClient, file) => OwnData(toClient', file)
      /\ OwnData(toClient, file) /\ m.type = "data" => m.file = file
      /\ LastLast(toClient) => LastLast(toClient')
      /\ LastLast(toClient) /\ m.type = "last" => toClient' = <<>>
      /\ Count(toClient, "data")
           = Count(toClient', "data") + (IF m.type = "data" THEN 1 ELSE 0)
  BY <1>a, <1>1, CarriesQueue, AnswerTake, CountTake
<1> HIDE DEF m
<1> SUFFICES ASSUME ~Spoilt', Receiving PROVE Answers' /\ Stage'
  BY <1>1 DEF Fetch, Receiving
<1>2. ~Spoilt /\ "slow" \notin blame'
  BY <1>1 DEF Spoilt
<1>3. buf = "clear" /\ buf' = Held(m)
  BY <1>1, <1>2 DEF Receiving
<1>4. Answers /\ Stage
  BY <1>2 DEF Fetch
<1>5. /\ m.type = "data" => buf' = file
      /\ m.type # "data" => buf' = "last"
  BY <1>b, <1>3, <1>4 DEF Held, Answers
<1>6. file \in Files /\ worker # "store" /\ file # "last"
  BY <1>3, <1>4, FilesAssumption DEF Receiving, Typed, Working, Answers
<1>7. m.type = "last" => toRelay = <<>> /\ toClient' = <<>>
  BY <1>b, <1>4 DEF Answers
<1>8. Carries(toClient', "last") => Carries(toClient, "last")
  BY <1>b
<1>9. Answers'
  BY <1>1, <1>b, <1>4, <1>5, <1>6, <1>7, <1>8 DEF Answers
<1>10. NoLast' <=> NoLast
  <2>1. m.type = "last" => ~NoLast /\ ~NoLast'
    BY <1>b, <1>5 DEF NoLast
  <2>2. m.type = "data" => (NoLast' <=> NoLast)
    BY <1>1, <1>b, <1>3, <1>5, <1>6 DEF NoLast
  <2> QED  BY <1>1, <2>1, <2>2
<1>11. Data' = Data
  <2>1. InBuffer = 0 /\ InBuffer' = IF m.type = "data" THEN 1 ELSE 0
    BY <1>1, <1>3, <1>5, <1>6, FilesAssumption DEF InBuffer
  <2>2. Count(toClient', "data") \in Nat /\ toClient' \in Seq(Msg)
    BY <1>a, <1>1, Taking, CountNone
  <2>3. sent \in Nat /\ Count(toRelay, "data") \in Nat
    BY DataType
  <2> DEFINE c == Count(toClient', "data")
             r == Count(toRelay, "data")
             k == IF m.type = "data" THEN 1 ELSE 0
  <2>4. Data = sent + 0 + (c + k) + r /\ Data' = sent + k + c + r
    BY <1>1, <1>b, <2>1 DEF Data
  <2>5. c \in Nat /\ r \in Nat /\ k \in Nat
    BY <2>2, <2>3
  <2> HIDE DEF c, r, k
  <2> QED  BY <2>3, <2>4, <2>5
<1>12. Stage'
  BY <1>1, <1>4, <1>10, <1>11, StageSame
<1> QED  BY <1>9, <1>12

(* The agent relays an answer.                                             *)
LEMMA FetchRelay ==
  ASSUME Typed, Session, Fetch, Relay
  PROVE  Fetch'
<1>a. toClient \in Seq(Msg) /\ toRelay \in Seq(Msg)
  BY Zenon DEF Typed, TypeOK, Channels
<1> DEFINE m == Head(toRelay)
<1>1. /\ toRelay # <<>> /\ toRelay' = Tail(toRelay) /\ m \in Msg
      /\ up => toClient' = Append(toClient, m)
      /\ UNCHANGED <<file, worker, sent, buf, stopJob, toAgent, toDevice,
                     name, thread, blame>>
  BY <1>a, Taking DEF Relay
<1> SUFFICES ASSUME ~Spoilt, Receiving PROVE Answers' /\ Stage'
  BY <1>1 DEF Fetch, Receiving, Spoilt
<1>2. toClient' = Append(toClient, m)
  BY <1>1 DEF Receiving, Session
<1>3. Answers /\ Stage
  BY DEF Fetch
<1>4. /\ \A t : Carries(toRelay, t) <=> m.type = t \/ Carries(toRelay', t)
      /\ OwnData(toRelay, file) => OwnData(toRelay', file)
      /\ OwnData(toRelay, file) /\ m.type = "data" => m.file = file
      /\ LastLast(toRelay) => LastLast(toRelay')
      /\ LastLast(toRelay) /\ m.type = "last" => toRelay' = <<>>
      /\ Count(toRelay, "data")
           = Count(toRelay', "data") + (IF m.type = "data" THEN 1 ELSE 0)
  BY <1>a, <1>1, CarriesQueue, AnswerTake, CountTake
<1>5. /\ \A t : Carries(toClient', t) <=> Carries(toClient, t) \/ m.type = t
      /\ OwnData(toClient, file) /\ (m.type = "data" => m.file = file)
           => OwnData(toClient', file)
      /\ ~Carries(toClient, "last") => LastLast(toClient')
      /\ Count(toClient', "data")
           = Count(toClient, "data") + (IF m.type = "data" THEN 1 ELSE 0)
  BY <1>a, <1>1, <1>2, CarriesQueue, AnswerSend, CountSend
<1>6. toRelay' \in Seq(Msg)
  BY <1>a, <1>1, Taking
<1>7. Count(toRelay', "data") \in Nat
  BY <1>6, CountNone
<1> HIDE DEF m
<1>8. ~Carries(toClient, "last") /\ buf # "last"
  BY <1>1, <1>3 DEF Answers
<1>9. Answers'
  BY <1>1, <1>3, <1>4, <1>5, <1>8 DEF Answers
<1>10. NoLast' <=> NoLast
  BY <1>1, <1>4, <1>5 DEF NoLast
<1>11. Data' = Data
  <2>1. InBuffer' = InBuffer
    BY <1>1 DEF InBuffer
  <2>2. sent \in Nat /\ Count(toClient, "data") \in Nat /\ InBuffer \in Nat
    BY DataType
  <2> DEFINE c == Count(toClient, "data")
             r == Count(toRelay', "data")
             k == IF m.type = "data" THEN 1 ELSE 0
             b == InBuffer
  <2>3. Data = sent + b + c + (r + k) /\ Data' = sent + b + (c + k) + r
    BY <1>1, <1>4, <1>5, <2>1 DEF Data
  <2>4. c \in Nat /\ r \in Nat /\ k \in Nat /\ b \in Nat
    BY <1>7, <2>2
  <2> HIDE DEF c, r, k, b
  <2> QED  BY <2>2, <2>3, <2>4
<1>12. Stage'
  BY <1>1, <1>3, <1>10, <1>11, StageSame
<1> QED  BY <1>9, <1>12

(* An error of the device ends a download before its end.                  *)
LEMMA FetchEnds ==
  ASSUME Typed, ~Spoilt', Answers, NoLast, Quiescent',
         toRelay' = toRelay \/ toRelay' = Append(toRelay, Plain("error")),
         \A j \in Jobs : thread'[j].pc \in {"none", "exit"},
         UNCHANGED <<file, worker, buf, toClient>>
  PROVE  Answers' /\ Stage'
<1>a. toRelay \in Seq(Msg)
  BY Zenon DEF Typed, TypeOK, Channels
<1>1. ~Carries(toRelay, "last")
  BY DEF NoLast
<1>2. /\ ~Carries(toRelay', "last") /\ OwnData(toRelay', file)
      /\ LastLast(toRelay')
  <2>1. CASE toRelay' = toRelay
    BY <1>1, <2>1 DEF Answers
  <2>2. CASE toRelay' = Append(toRelay, Plain("error"))
    <3>1. Plain("error") \in Msg /\ Plain("error").type = "error"
      BY Messages DEF Plain
    <3> QED  BY <1>a, <1>1, <2>2, <3>1, CarriesQueue, AnswerSend DEF Answers
  <2> QED  BY <2>1, <2>2
<1>3. NoLast'
  BY <1>2 DEF NoLast
<1>4. Served'
  BY <1>3 DEF Served
<1>5. Answers'
  BY <1>2 DEF Answers, NoLast
<1> QED  BY <1>4, <1>5 DEF Stage

LEMMA FetchForward ==
  ASSUME Typed, Fetch, Forward
  PROVE  Fetch'
<1> SUFFICES ASSUME ~Spoilt' PROVE Fetch'
  BY DEF Fetch
<1>1. /\ toAgent # <<>> /\ toAgent' = Tail(toAgent)
      /\ toDevice' = Append(toDevice, Head(toAgent))
      /\ UNCHANGED <<file, worker, sent, buf, stopJob, toRelay, toClient, name,
                     thread, blame>>
  BY DEF Forward, Spoilt
<1> SUFFICES ASSUME ~Spoilt, Receiving PROVE Answers' /\ Stage'
  BY <1>1 DEF Fetch, Receiving, Spoilt
<1>2. Answers /\ Asked /\ toAgent = <<Request>> /\ toDevice = <<>>
  BY <1>1 DEF Fetch, Stage, Asked, Looking, Serving, Served, Quiescent
<1>3. toAgent' = <<>> /\ toDevice' = <<Request>> /\ Request' = Request
  BY <1>1, <1>2 DEF Request
<1>4. Data' = Data /\ (NoLast' <=> NoLast)
  BY <1>1 DEF Data, InBuffer, NoLast
<1>5. Asked'
  BY <1>1, <1>2, <1>3, <1>4 DEF Asked
<1>6. Answers'
  BY <1>1, <1>2 DEF Answers
<1> QED  BY <1>5, <1>6 DEF Stage

(* The daemon takes a message: it can only be the request.                 *)
LEMMA FetchTaken ==
  ASSUME Fetch, ~Spoilt, Receiving, toDevice # <<>>
  PROVE  /\ Answers /\ Asked /\ toAgent = <<>> /\ toDevice = <<Request>>
         /\ Head(toDevice).type = "get" /\ Head(toDevice).file = file
         /\ Tail(toDevice) = <<>>
<1>1. Answers /\ Asked /\ toAgent = <<>> /\ toDevice = <<Request>>
  BY DEF Fetch, Stage, Asked, Looking, Serving, Served, Quiescent
<1> QED  BY <1>1 DEF Request

LEMMA FetchDaemon ==
  ASSUME Typed, Fetch, Daemon
  PROVE  Fetch'
<1>1. /\ toDevice # <<>> /\ toDevice' = Tail(toDevice) /\ blame \subseteq blame'
      /\ UNCHANGED <<file, worker, sent, buf, stopJob, toAgent, toClient>>
      /\ \/ ConvertFails \/ OnFileDownloadReq
         \/ Head(toDevice).type # "get"
  BY DEF Daemon, ConvertFails, OnFileDownloadReq, OnFileUploadReq, OnFileWrite,
     OnFileEnd, OnFileErr, Arrived
<1> SUFFICES ASSUME ~Spoilt', Receiving PROVE Answers' /\ Stage'
  BY <1>1 DEF Fetch, Receiving
<1>2. /\ Answers /\ Asked /\ toAgent = <<>> /\ Head(toDevice).type = "get"
      /\ Head(toDevice).file = file /\ Tail(toDevice) = <<>>
  <2>1. ~Spoilt
    BY <1>1 DEF Spoilt
  <2> QED  BY <1>1, <2>1, FetchTaken
<1>3. Quiescent'
  BY <1>1, <1>2 DEF Quiescent
<1>4. CASE ConvertFails
  <2>1. toRelay' = Append(toRelay, Plain("error")) /\ thread' = thread
    BY <1>4 DEF ConvertFails, SendFileErr
  <2>2. \A j \in Jobs : thread'[j].pc \in {"none", "exit"}
    BY <1>2, <2>1 DEF Asked
  <2> QED  BY <1>1, <1>2, <1>3, <2>1, <2>2, FetchEnds DEF Asked
<1>5. CASE OnFileDownloadReq
  <2>1. name' = file /\ UNCHANGED toRelay
    BY <1>2, <1>5 DEF OnFileDownloadReq
  <2>2. PICK j \in Jobs : thread' = [thread EXCEPT ![j].pc = "stat"]
    BY <1>5 DEF OnFileDownloadReq
  <2>3. /\ thread'[j].pc = "stat"
        /\ \A i \in Jobs \ {j} : thread'[i].pc = "none"
    BY <1>2, <2>2 DEF Asked, Typed, TypeOK, Threads
  <2>4. Data' = Data /\ (NoLast' <=> NoLast)
    BY <1>1, <2>1 DEF Data, InBuffer, NoLast
  <2>5. Looking'
    BY <1>1, <1>2, <1>3, <2>1, <2>3, <2>4 DEF Asked, Looking, Alone
  <2>6. Answers'
    BY <1>1, <1>2, <2>1 DEF Answers
  <2> QED  BY <2>5, <2>6 DEF Stage
<1> QED  BY <1>1, <1>2, <1>4, <1>5

LEMMA FetchStart ==
  ASSUME Typed, Fetch, NEW d \in {"put", "get"}, NEW f \in Files, Start(d, f)
  PROVE  Fetch'
<1>a. /\ toAgent \in Seq(Msg) /\ toDevice \in Seq(Msg)
  BY Zenon DEF Typed, TypeOK, Channels
<1>1. /\ toAgent' = Append(toAgent, [type |-> d, file |-> f])
      /\ sent' = 0 /\ buf' = "clear" /\ file' = f
      /\ blame' = blame \cup Remains
      /\ worker' = IF d = "put" THEN "put" ELSE "arm"
      /\ UNCHANGED <<toDevice, toRelay, toClient, thread>>
  BY DEF Start
<1> SUFFICES ASSUME ~Spoilt', d = "get" PROVE Answers' /\ Stage'
  BY <1>1 DEF Fetch, Receiving
<1>2. Answered /\ toAgent = <<>> /\ toDevice = <<>>
  <2>1. "answers" \notin Remains /\ "requests" \notin Remains
    BY <1>1 DEF Spoilt
  <2>2. Answered /\ toAgent \o toDevice = <<>>
    BY <2>1 DEF Remains
  <2> QED  BY <1>a, <2>2
<1>3. toRelay' = <<>> /\ toClient' = <<>>
  BY <1>1, <1>2 DEF Answered
<1>4. Answers'
  BY <1>1, <1>3, AnswerNone, Nothing DEF Answers
<1>5. NoLast'
  BY <1>1, <1>3, Nothing DEF NoLast
<1>6. Data' = 0
  <2>1. <<>> \in Seq(Msg) /\ ~Carries(<<>>, "data")
    BY Nothing
  <2>2. Count(<<>>, "data") = 0
    BY <2>1, CountNone
  <2>3. InBuffer' = 0
    BY <1>1, FilesAssumption DEF InBuffer
  <2> QED  BY <1>1, <1>3, <2>2, <2>3 DEF Data
<1>7. toAgent' = <<Request'>> /\ toDevice' = <<>>
  BY <1>1, <1>2 DEF Request
<1>8. Asked'
  BY <1>1, <1>2, <1>5, <1>6, <1>7 DEF Asked, Answered
<1> QED  BY <1>4, <1>8 DEF Stage

(* The thread. The length of the file is that of a whole file: an upload   *)
(* would have its mark on the connections.                                 *)
LEMMA FetchThread ==
  ASSUME Typed, Session, Upload, Fetch, NEW j \in Jobs, Download(j)
  PROVE  Fetch'
<1>1. /\ UNCHANGED <<file, worker, sent, buf, stopJob, toAgent, toDevice,
                     toClient, name, blame>>
      /\ thread[j].pc # "none"
  BY DEF Download, ThreadStat, ThreadOpen, ThreadRead, ThreadStopped,
     ThreadExit
<1>2. thread \in [Jobs -> Threads]
  BY DEF Typed, TypeOK
<1> SUFFICES ASSUME ~Spoilt, Receiving PROVE Answers' /\ Stage'
  BY <1>1 DEF Fetch, Receiving, Spoilt
<1>3. Answers /\ Stage /\ ~Asked /\ ~Spoilt'
  BY <1>1 DEF Fetch, Asked, Spoilt
<1>4. Quiescent'
  BY <1>1, <1>3 DEF Stage, Looking, Serving, Served, Quiescent
<1>5. ASSUME thread[j].pc \in {"stat", "open"} PROVE Looking /\ Alone(j)
  BY <1>3, <1>5 DEF Stage, Looking, Serving, Served, Alone
<1>6. ASSUME thread[j].pc = "loop"
      PROVE  /\ Serving /\ Alone(j) /\ thread[j].file = file
             /\ Data + thread[j].left = Chunks
  BY <1>3, <1>6 DEF Stage, Looking, Serving, Served, Alone
<1>7. CASE /\ thread[j].pc \in {"stat", "open", "loop"}
           /\ toRelay' = toRelay \/ toRelay' = Append(toRelay, Plain("error"))
           /\ \A i \in Jobs \ {j} : thread'[i] = thread[i]
           /\ thread'[j].pc \in {"none", "exit"}
  <2>1. Alone(j) /\ NoLast
    BY <1>5, <1>6, <1>7 DEF Looking, Serving
  <2>2. \A i \in Jobs : thread'[i].pc \in {"none", "exit"}
    BY <1>7, <2>1 DEF Alone
  <2> QED  BY <1>1, <1>3, <1>4, <1>7, <2>1, <2>2, FetchEnds
<1>8. CASE /\ thread[j].pc = "stat" /\ toRelay' = toRelay
           /\ thread' = [thread EXCEPT ![j].pc = "open"]
  <2>1. Data' = Data /\ (NoLast' <=> NoLast)
    BY <1>1, <1>8 DEF Data, InBuffer, NoLast
  <2>2. thread'[j].pc = "open" /\ \A i \in Jobs \ {j} : thread'[i] = thread[i]
    BY <1>2, <1>8 DEF Threads
  <2>3. Looking'
    BY <1>1, <1>4, <1>5, <1>8, <2>1, <2>2 DEF Looking, Alone
  <2>4. Answers'
    BY <1>1, <1>3, <1>8 DEF Answers
  <2> QED  BY <2>3, <2>4 DEF Stage
<1>9. CASE /\ thread[j].pc = "open" /\ toRelay' = toRelay /\ Exists(name)
           /\ thread' = [thread EXCEPT ![j] =
                [pc |-> "loop", left |-> Length(name), file |-> name]]
  <2>1. Data' = Data /\ (NoLast' <=> NoLast)
    BY <1>1, <1>9 DEF Data, InBuffer, NoLast
  <2>2. Looking /\ Alone(j)
    BY <1>5, <1>9
  <2>3. name = file /\ name \in Files /\ disk[name] # Removed
    BY <1>9, <2>2 DEF Looking, Exists
  <2>4. ~Half(name)
    <3>1. dir = "get" /\ ~Strayed
      BY DEF Receiving, Session, Spoilt, Strayed
    <3> QED  BY <2>3, <3>1 DEF Upload, Uploading, Open, Transfer
  <2>5. Length(name) = Chunks
    <3>1. disk[name] \in Content
      BY <2>3 DEF Typed, TypeOK
    <3>2. disk[name] = Chunks \/ disk[name] = Old
      BY <2>3, <2>4, <3>1, ChunksAssumption DEF Half, Content, Removed, Old
    <3> QED  BY <3>2 DEF Length
  <2>6. /\ thread'[j] = [pc |-> "loop", left |-> Chunks, file |-> file]
        /\ \A i \in Jobs \ {j} : thread'[i] = thread[i]
    BY <1>2, <1>9, <2>3, <2>5
  <2>7. Data' + thread'[j].left = Chunks /\ NoLast'
    BY <2>1, <2>2, <2>6, ChunksAssumption DEF Looking
  <2>8. Serving'
    BY <1>1, <1>4, <2>2, <2>6, <2>7 DEF Serving, Alone
  <2>9. Answers'
    BY <1>1, <1>3, <1>9 DEF Answers
  <2> QED  BY <2>8, <2>9 DEF Stage
<1>10. CASE /\ thread[j].pc = "loop" /\ thread[j].left > 0
            /\ toRelay' = Append(toRelay,
                            [type |-> "data", file |-> thread[j].file])
            /\ thread' = [thread EXCEPT ![j].left = @ - 1]
  <2>a. toRelay \in Seq(Msg)
    BY Zenon DEF Typed, TypeOK, Channels
  <2>1. /\ Serving /\ Alone(j) /\ thread[j].file = file
        /\ Data + thread[j].left = Chunks
    BY <1>6, <1>10
  <2>2. PICK m \in Msg : /\ m.type = "data" /\ m.file = file
                         /\ toRelay' = Append(toRelay, m)
    BY <1>10, <2>1, Messages DEF Typed, Reading
  <2>3. /\ ~Carries(toRelay', "last") /\ OwnData(toRelay', file)
        /\ LastLast(toRelay')
    BY <1>3, <2>a, <2>1, <2>2, CarriesQueue, AnswerSend
    DEF Serving, NoLast, Answers
  <2>4. Count(toRelay', "data") = Count(toRelay, "data") + 1
    BY <2>a, <2>2, CountSend
  <2>5. NoLast'
    BY <1>1, <2>1, <2>3 DEF Serving, NoLast
  <2>6. Data' = Data + 1
    <3>1. InBuffer' = InBuffer
      BY <1>1 DEF InBuffer
    <3>2. /\ sent \in Nat /\ InBuffer \in Nat /\ Count(toClient, "data") \in Nat
          /\ Count(toRelay, "data") \in Nat
      BY DataType
    <3> DEFINE c == Count(toClient, "data")
               r == Count(toRelay, "data")
               b == InBuffer
    <3>3. Data = sent + b + c + r /\ Data' = sent + b + c + (r + 1)
      BY <1>1, <2>4, <3>1 DEF Data
    <3>4. c \in Nat /\ r \in Nat /\ b \in Nat
      BY <3>2
    <3> HIDE DEF c, r, b
    <3> QED  BY <3>2, <3>3, <3>4
  <2>7. /\ thread'[j].pc = "loop" /\ thread'[j].file = file
        /\ thread'[j].left = thread[j].left - 1
        /\ \A i \in Jobs \ {j} : thread'[i] = thread[i]
    BY <1>2, <1>10, <2>1 DEF Threads
  <2>8. Data' + thread'[j].left = Chunks
    <3>1. Data \in Nat /\ thread[j].left \in Int
      BY <1>2, DataType DEF Threads
    <3> QED  BY <2>1, <2>6, <2>7, <3>1
  <2>9. Serving'
    BY <1>1, <1>4, <2>1, <2>5, <2>7, <2>8 DEF Serving, Alone
  <2>10. Answers'
    BY <1>1, <1>3, <2>1, <2>3 DEF Answers, Serving, NoLast
  <2> QED  BY <2>9, <2>10 DEF Stage
<1>11. CASE /\ thread[j].pc = "loop" /\ thread[j].left = 0
            /\ toRelay' = Append(toRelay, Plain("last"))
            /\ thread' = [thread EXCEPT ![j].pc = "exit"]
  <2>a. toRelay \in Seq(Msg)
    BY Zenon DEF Typed, TypeOK, Channels
  <2>1. Serving /\ Alone(j) /\ Data = Chunks
    <3>1. Data \in Nat
      BY DataType
    <3> QED  BY <1>6, <1>11, <3>1
  <2>2. Plain("last") \in Msg /\ Plain("last").type = "last"
    BY Messages DEF Plain
  <2>3. OwnData(toRelay', file) /\ LastLast(toRelay')
    BY <1>3, <1>11, <2>a, <2>1, <2>2, AnswerSend DEF Serving, NoLast, Answers
  <2>4. Count(toRelay', "data") = Count(toRelay, "data") + 0
    BY <1>11, <2>a, <2>2, CountSend
  <2>5. Count(toRelay', "data") = Count(toRelay, "data")
    BY <2>4, DataType
  <2>6. Data' = Data
    BY <1>1, <2>5 DEF Data, InBuffer
  <2>7. \A i \in Jobs : thread'[i].pc \in {"none", "exit"}
    BY <1>2, <1>11, <2>1 DEF Threads, Alone
  <2>8. Served'
    BY <1>4, <2>1, <2>6, <2>7 DEF Served
  <2>9. Answers'
    BY <1>1, <1>3, <2>1, <2>3 DEF Answers, Serving, NoLast
  <2> QED  BY <2>8, <2>9 DEF Stage
<1>12. CASE /\ thread[j].pc = "exit" /\ toRelay' = toRelay
            /\ thread' = [thread EXCEPT ![j] = Idle]
  <2>1. Data' = Data /\ (NoLast' <=> NoLast)
    BY <1>1, <1>12 DEF Data, InBuffer, NoLast
  <2>2. thread'[j].pc = "none" /\ \A i \in Jobs \ {j} : thread'[i] = thread[i]
    BY <1>2, <1>12 DEF Idle
  <2>3. Served
    BY <1>3, <1>12 DEF Stage, Looking, Serving, Alone
  <2>4. Served'
    BY <1>4, <2>1, <2>2, <2>3 DEF Served
  <2>5. Answers'
    BY <1>1, <1>3, <1>12 DEF Answers
  <2> QED  BY <2>4, <2>5 DEF Stage
<1>13. \/ /\ thread[j].pc \in {"stat", "open", "loop"}
          /\ toRelay' = toRelay \/ toRelay' = Append(toRelay, Plain("error"))
          /\ \A i \in Jobs \ {j} : thread'[i] = thread[i]
          /\ thread'[j].pc \in {"none", "exit"}
       \/ /\ thread[j].pc = "stat" /\ toRelay' = toRelay
          /\ thread' = [thread EXCEPT ![j].pc = "open"]
       \/ /\ thread[j].pc = "open" /\ toRelay' = toRelay /\ Exists(name)
          /\ thread' = [thread EXCEPT ![j] =
               [pc |-> "loop", left |-> Length(name), file |-> name]]
       \/ /\ thread[j].pc = "loop" /\ thread[j].left > 0
          /\ toRelay' = Append(toRelay,
                          [type |-> "data", file |-> thread[j].file])
          /\ thread' = [thread EXCEPT ![j].left = @ - 1]
       \/ /\ thread[j].pc = "loop" /\ thread[j].left = 0
          /\ toRelay' = Append(toRelay, Plain("last"))
          /\ thread' = [thread EXCEPT ![j].pc = "exit"]
       \/ /\ thread[j].pc = "exit" /\ toRelay' = toRelay
          /\ thread' = [thread EXCEPT ![j] = Idle]
  <2>1. ASSUME thread' = [thread EXCEPT ![j] = Idle]
        PROVE  /\ thread'[j].pc = "none"
               /\ \A i \in Jobs \ {j} : thread'[i] = thread[i]
    BY <1>2, <2>1 DEF Idle
  <2>2. ASSUME thread' = [thread EXCEPT ![j].pc = "exit"]
        PROVE  /\ thread'[j].pc = "exit"
               /\ \A i \in Jobs \ {j} : thread'[i] = thread[i]
    BY <1>2, <2>2 DEF Threads
  <2>3. CASE ThreadStat(j)
    BY <2>1, <2>3 DEF ThreadStat, SendFileErr
  <2>4. CASE ThreadOpen(j)
    BY <2>1, <2>4 DEF ThreadOpen, SendFileErr
  <2>5. CASE ThreadRead(j)
    BY <2>2, <2>5 DEF ThreadRead, SendFileErr, DataOf
  <2>6. CASE ThreadStopped(j)
    BY <2>2, <2>6 DEF ThreadStopped
  <2>7. CASE ThreadExit(j)
    BY <2>7 DEF ThreadExit
  <2> QED  BY <2>3, <2>4, <2>5, <2>6, <2>7 DEF Download
<1> QED  BY Zenon, <1>7, <1>8, <1>9, <1>10, <1>11, <1>12, <1>13

LEMMA NextFetch ==
  ASSUME Typed, Session, Upload, Fetch, [Next]_vars
  PROVE  Fetch'
<1>1. CASE Connect \/ Cancel \/ Break
  BY <1>1 DEF Connect, Cancel, Break, Fetch, Receiving
<1>2. CASE PutChunk \/ PutCancel \/ PutEnd
  BY <1>2 DEF PutChunk, PutCancel, PutEnd, Finish, Fetch, Receiving
<1>3. CASE GetCancel \/ GetLast \/ GetFails
  BY <1>3 DEF GetCancel, GetLast, GetFails, Finish, Fetch, Receiving
<1>4. CASE GetArm \/ GetStored
  BY <1>4, FetchStored
<1>5. CASE GetChunk
  BY <1>5, FetchChunk
<1>6. CASE ReadData
  BY <1>6, FetchRead
<1>7. CASE ReadError
  BY <1>7 DEF ReadError, Fetch, Receiving
<1>8. CASE Forward
  BY <1>8, FetchForward
<1>9. CASE ExitClient
  <2>1. toAgent \in Seq(Msg)
    BY Zenon DEF Typed, TypeOK, Channels
  <2>2. worker = "idle" /\ worker' = worker
    BY <1>9, <2>1, CarriesQueue DEF ExitClient, Session
  <2> QED  BY <2>2 DEF Fetch, Receiving
<1>10. CASE Relay
  BY <1>10, FetchRelay
<1>11. CASE RelayClear
  BY <1>11, FetchQuiet DEF RelayClear
<1>12. CASE Daemon
  BY <1>12, FetchDaemon
<1>13. ASSUME NEW d \in {"put", "get"}, NEW f \in Files, Start(d, f)
       PROVE  Fetch'
  BY <1>13, FetchStart
<1>14. ASSUME NEW j \in Jobs, Download(j)
       PROVE  Fetch'
  BY <1>14, FetchThread
<1>15. CASE UNCHANGED vars
  BY <1>15, FetchQuiet DEF vars
<1>16. CASE Shut \/ PutFails
  BY <1>16 DEF Shut, PutFails, Finish, Fetch, Receiving
<1>17. ASSUME NEW d \in {"put", "get"}, NEW f \in Files, StartFails(d, f)
       PROVE  Fetch'
  BY <1>17 DEF StartFails, Fetch, Receiving
<1>18. CASE OtherArrives \/ RestartFbc
  BY <1>18, FetchQuiet DEF OtherArrives, RestartFbc
<1>19. CASE LinkLost
  BY <1>19 DEF LinkLost, Fetch, Receiving, Spoilt
<1>20. CASE GivesUp
  BY <1>20 DEF GivesUp, Fetch, Spoilt
<1> QED
  BY <1>1, <1>2, <1>3, <1>4, <1>5, <1>6, <1>7, <1>8, <1>9, <1>10, <1>11,
     <1>12, <1>13, <1>14, <1>15, <1>16, <1>17, <1>18, <1>19, <1>20
  DEF Next, User, Environment, Task, Reader, ClientThread, ScreenThread

(* The last step of a download, and what may follow it.                    *)
LEMMA NextDone ==
  ASSUME Typed, Session, Fetch, DoneIsWhole, [Next]_vars
  PROVE  DoneIsWhole'
<1> SUFFICES ASSUME status' = "done", dir' = "get", ~Spoilt' PROVE sent' = Chunks
  BY DEF DoneIsWhole, Spoilt
<1>1. CASE GetLast
  <2>1. /\ Receiving /\ buf = "last" /\ sent' = sent /\ blame' = blame
    BY <1>1 DEF GetLast, Receiving
  <2>2. Answers /\ Stage
    BY <2>1 DEF Fetch, Spoilt
  <2>3. Data = Chunks
    BY <2>1, <2>2 DEF Stage, Asked, Looking, Serving, Served, NoLast
  <2>4. InBuffer = 0
    BY <2>1, FilesAssumption DEF InBuffer
  <2>5. Count(toClient, "data") = 0 /\ Count(toRelay, "data") = 0
    <3>1. <<>> \in Seq(Msg) /\ ~Carries(<<>>, "data")
      BY Nothing
    <3> QED  BY <2>1, <2>2, <3>1, CountNone DEF Answers
  <2>6. sent \in Nat
    BY DataType
  <2> QED  BY <2>1, <2>3, <2>4, <2>5, <2>6 DEF Data
<1>2. CASE UNCHANGED <<status, dir, sent, blame>>
  BY <1>2 DEF DoneIsWhole, Spoilt
<1>3. CASE UNCHANGED <<status, dir, sent>> /\ blame \subseteq blame'
  BY <1>3 DEF DoneIsWhole, Spoilt
<1>4. CASE Connect \/ Cancel \/ ReadError
  BY <1>4 DEF Connect, Cancel, ReadError
<1>5. CASE PutEnd \/ PutFails
  BY <1>5 DEF PutEnd, PutFails, Session
<1>6. CASE GetCancel
  BY <1>6 DEF GetCancel, Finish, Session
<1>7. CASE GetFails
  BY <1>7 DEF GetFails, Spoilt
<1>8. CASE PutChunk \/ GetChunk
  BY <1>8 DEF PutChunk, GetChunk, Session
<1>9. ASSUME NEW d \in {"put", "get"}, NEW f \in Files, Start(d, f)
      PROVE  sent' = Chunks
  BY <1>9 DEF Start
<1>10. CASE Break \/ PutCancel \/ GetArm \/ GetStored \/ ReadData
  BY <1>3, <1>10 DEF Break, PutCancel, GetArm, GetStored, ReadData
<1>11. CASE Forward \/ ExitClient \/ Relay \/ RelayClear
  BY <1>3, <1>11 DEF Forward, ExitClient, Relay, RelayClear
<1>12. CASE Daemon
  BY <1>3, <1>12 DEF Daemon, ConvertFails, OnFileDownloadReq, OnFileUploadReq,
     OnFileWrite, OnFileEnd, OnFileErr
<1>13. ASSUME NEW j \in Jobs, Download(j)
       PROVE  sent' = Chunks
  BY <1>2, <1>13 DEF Download, ThreadStat, ThreadOpen, ThreadRead,
     ThreadStopped, ThreadExit
<1>14. CASE UNCHANGED vars
  BY <1>2, <1>14 DEF vars
<1>15. CASE Shut
  BY <1>15 DEF Shut, Session, Spoilt
<1>16. ASSUME NEW d \in {"put", "get"}, NEW f \in Files, StartFails(d, f)
       PROVE  sent' = Chunks
  BY <1>16 DEF StartFails
<1>17. CASE Environment
  BY <1>3, <1>17 DEF Environment, OtherArrives, LinkLost, RestartFbc, GivesUp
<1> QED
  BY <1>1, <1>4, <1>5, <1>6, <1>7, <1>8, <1>9, <1>10, <1>11, <1>12, <1>13,
     <1>14, <1>15, <1>16, <1>17
  DEF Next, User, Task, Reader, ClientThread, ScreenThread

-----------------------------------------------------------------------------
Transfers == Session /\ Path /\ Upload /\ Fetch /\ DoneIsWhole

(* The inductive invariant: what is on its way belongs to one transfer,    *)
(* and its blocks are all there.                                           *)
THEOREM TransfersInvariant == Spec => []Transfers
<1>1. Init => Transfers
  <2> SUFFICES ASSUME Init PROVE Transfers
    OBVIOUS
  <2>1. Fetch /\ DoneIsWhole
    BY DEF Init, Fetch, Receiving, DoneIsWhole
  <2> QED  BY <2>1, InitSession, InitPath, InitUpload DEF Transfers
<1>2. Typed /\ Transfers /\ [Next]_vars => Transfers'
  BY NextSession, NextPath, NextUpload, NextFetch, NextDone DEF Transfers
<1> QED  BY <1>1, <1>2, Typing, PTL DEF Spec

(* DoneIsWhole: a download that the dialog calls done has all blocks of    *)
(* the file, whatever its length and the capacity of the connections.      *)
THEOREM DownloadsAreWhole == Spec => []DoneIsWhole
<1>1. Transfers => DoneIsWhole
  BY DEF Transfers
<1> QED  BY <1>1, TransfersInvariant, PTL

(* NoHalfFile: when a client has gone and everything has come to rest, no  *)
(* file is open for writing and none is half written.                      *)
THEOREM NothingIsHalf == Spec => []NoHalfFile
<1>1. Typed /\ Transfers => NoHalfFile
  <2> SUFFICES ASSUME Typed, Transfers, ~sess, Drained,
                      blame \cap {"answers", "requests", "openFile", "lag",
                                 "link"} = {}
               PROVE  ~Open
    BY DEF NoHalfFile, Open, Half
  <2>1. mFtp = 0
    BY DEF Transfers, Session
  <2>2. \A t : ~Carries(toAgent, t) /\ ~Carries(toDevice, t)
    BY Nothing DEF Drained
  <2>3. ~Flagged
    BY <2>1, <2>2 DEF Flagged
  <2> QED  BY <2>3 DEF Transfers, Upload, Uploading, Strayed, Transfer
<1> QED  BY <1>1, Typing, TransfersInvariant, PTL

=============================================================================
