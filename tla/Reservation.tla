---------------------------- MODULE Reservation ----------------------------
(***************************************************************************)
(* The arithmetic at the start of a session: the time that is left, as TA  *)
(* packs it and TC shows it, and the test of the client's version.         *)
(*                                                                         *)
(* Operators only; the theorems hold for every time and every version. The *)
(* leaves name SMT: no other backend reads literals of this size.          *)
(***************************************************************************)
EXTENDS Integers, TLAPS

(* The fields of a SYSTEMTIME; seven bits hold its year until 2107.        *)
Years == 1980 .. 2107
Months == 1 .. 12
Days == 1 .. 31
Hours == 0 .. 23
Minutes == 0 .. 59
Seconds == 0 .. 59

(* timedateToDword; the fields do not overlap, the bitwise or is a sum.    *)
Packed(year, month, day, hour, minute, sec) ==
  (year - 1980) * 33554432 + (month % 16) * 2097152 + (day % 32) * 65536
    + (hour % 32) * 2048 + (minute % 64) * 32 + sec \div 2

(* timedateDwordMinus adds the difference of two dates to the first day of *)
(* 1980: the bits above the sixteenth hold the date, the others the time   *)
(* that is left beyond whole days.                                         *)
Difference(date, left) ==
  LET s == left % 86400 IN
    date * 65536 + (s \div 3600) * 2048 + ((s \div 60) % 60) * 32
      + (s % 60) \div 2

(* What TC makes of it; its mask for the seconds has one bit too many.     *)
ShownTime(v) ==
  (v % 64) * 2 + ((v \div 32) % 64) * 60 + ((v \div 2048) % 32) * 3600 - 1

(* The version test of the negotiation, and what it is for.                *)
Version == [major : Nat, minor : Nat, build : Nat]
Refused(server, client) ==
  \/ server.major > client.major
  \/ server.minor > client.minor
  \/ server.build > client.build
Older(client, server) ==
  \/ client.major < server.major
  \/ client.major = server.major /\ client.minor < server.minor
  \/ /\ client.major = server.major /\ client.minor = server.minor
     /\ client.build < server.build

-----------------------------------------------------------------------------
(* Comparing packed dates compares the dates field by field, whatever the  *)
(* fields are, except that two dates of the same even second are equal:    *)
(* the tests of a reservation's time, which compare packed dates, cut a    *)
(* client off in the second after its last, or in the one after that.      *)
THEOREM PackedKeepsOrder ==
  ASSUME NEW y \in Years, NEW m \in Months, NEW d \in Days,
         NEW h \in Hours, NEW n \in Minutes, NEW s \in Seconds,
         NEW Y \in Years, NEW M \in Months, NEW D \in Days,
         NEW H \in Hours, NEW N \in Minutes, NEW S \in Seconds
  PROVE  Packed(y, m, d, h, n, s) < Packed(Y, M, D, H, N, S)
           <=> \/ y < Y
               \/ y = Y /\ m < M
               \/ y = Y /\ m = M /\ d < D
               \/ y = Y /\ m = M /\ d = D /\ h < H
               \/ y = Y /\ m = M /\ d = D /\ h = H /\ n < N
               \/ /\ y = Y /\ m = M /\ d = D /\ h = H /\ n = N
                  /\ s \div 2 < S \div 2
<1> USE DEF Years, Months, Days, Hours, Minutes, Seconds
<1> DEFINE l6 == s \div 2
           L6 == S \div 2
           l5 == n * 32 + l6
           L5 == N * 32 + L6
           l4 == h * 2048 + l5
           L4 == H * 2048 + L5
           l3 == d * 65536 + l4
           L3 == D * 65536 + L4
           l2 == m * 2097152 + l3
           L2 == M * 2097152 + L3
           l1 == (y - 1980) * 33554432 + l2
           L1 == (Y - 1980) * 33554432 + L2
<1>1. /\ Packed(y, m, d, h, n, s) = l1
      /\ Packed(Y, M, D, H, N, S) = L1
  <2>1. m % 16 = m /\ d % 32 = d /\ h % 32 = h /\ n % 64 = n
    BY SMT
  <2>2. M % 16 = M /\ D % 32 = D /\ H % 32 = H /\ N % 64 = N
    BY SMT
  <2>3. Packed(y, m, d, h, n, s) = l1
    BY SMT, <2>1 DEF Packed
  <2>4. Packed(Y, M, D, H, N, S) = L1
    BY SMT, <2>2 DEF Packed
  <2> QED
    BY SMT, <2>3, <2>4
<1>2. l6 \in Nat /\ L6 \in Nat /\ l6 < 32 /\ L6 < 32
  BY SMT
<1> HIDE DEF l6, L6
<1>3. l5 \in Nat /\ L5 \in Nat /\ l5 < 2048 /\ L5 < 2048
  BY SMT, <1>2
<1>4. l5 < L5 <=> n < N \/ (n = N /\ l6 < L6)
  BY SMT, <1>2
<1> HIDE DEF l5, L5
<1>5. l4 \in Nat /\ L4 \in Nat /\ l4 < 65536 /\ L4 < 65536
  BY SMT, <1>3
<1>6. l4 < L4 <=> h < H \/ (h = H /\ l5 < L5)
  BY SMT, <1>3
<1> HIDE DEF l4, L4
<1>7. l3 \in Nat /\ L3 \in Nat /\ l3 < 2097152 /\ L3 < 2097152
  BY SMT, <1>5
<1>8. l3 < L3 <=> d < D \/ (d = D /\ l4 < L4)
  BY SMT, <1>5
<1> HIDE DEF l3, L3
<1>9. l2 \in Nat /\ L2 \in Nat /\ l2 < 33554432 /\ L2 < 33554432
  BY SMT, <1>7
<1>10. l2 < L2 <=> m < M \/ (m = M /\ l3 < L3)
  BY SMT, <1>7
<1> HIDE DEF l2, L2
<1>11. l1 < L1 <=> y < Y \/ (y = Y /\ l2 < L2)
  BY SMT, <1>9
<1> HIDE DEF l1, L1
<1> QED
  BY SMT, <1>1, <1>4, <1>6, <1>8, <1>10, <1>11 DEF l6, L6

(* The time that TC counts down from is the time that is left beyond whole *)
(* days, less a second or two, and 64 seconds too long whenever the number *)
(* of minutes is odd.                                                      *)
THEOREM TimeShown ==
  ASSUME NEW date \in Nat, NEW left \in Nat
  PROVE  LET s == left % 86400 IN
         ShownTime(Difference(date, left))
           = (s - (s % 2)) + 64 * ((s \div 60) % 2) - 1
<1> DEFINE s == left % 86400
<1>1. s \in Nat /\ s < 86400
  BY SMT
<1> DEFINE n == s \div 60
           r == s % 60
           h == s \div 3600
           m == n % 60
           q == r \div 2
           v == date * 65536 + h * 2048 + m * 32 + q
<1>2. Difference(date, left) = v
  BY SMT DEF Difference
<1> HIDE DEF s
<1>3. s = n * 60 + r /\ n \in Nat /\ n < 1440 /\ r \in 0 .. 59
  BY SMT, <1>1
<1>4. h = n \div 60
  BY SMT, <1>1
<1> HIDE DEF n, r, h
<1>5. n = h * 60 + m /\ h \in 0 .. 23 /\ m \in 0 .. 59
  BY SMT, <1>3, <1>4
<1>6. s % 2 = r % 2
  BY SMT, <1>3
<1>7. r = q * 2 + (r % 2) /\ q \in 0 .. 29
  BY SMT, <1>3
<1>8. n % 2 = m % 2
  BY SMT, <1>5
<1> HIDE DEF m, q
<1>9. v % 64 = (m % 2) * 32 + q
  BY SMT, <1>5, <1>7
<1>10. v \div 32 = date * 2048 + h * 64 + m
  BY SMT, <1>5, <1>7
<1>11. (v \div 32) % 64 = m
  <2>1. (date * 2048 + h * 64 + m) % 64 = m
    BY SMT, <1>5
  <2> QED
    BY SMT, <1>10, <2>1
<1>12. v \div 2048 = date * 32 + h
  BY SMT, <1>5, <1>7
<1>13. (v \div 2048) % 32 = h
  <2>1. (date * 32 + h) % 32 = h
    BY SMT, <1>5
  <2> QED
    BY SMT, <1>12, <2>1
<1> HIDE DEF v
<1>14. ShownTime(v) = ((m % 2) * 32 + q) * 2 + m * 60 + h * 3600 - 1
  BY SMT, <1>9, <1>11, <1>13 DEF ShownTime
<1>15. ShownTime(v) = (s - (s % 2)) + 64 * (n % 2) - 1
  <2> DEFINE e == r % 2
             g == m % 2
  <2>1. e \in Int /\ g \in Int
    BY SMT, <1>3, <1>5
  <2> HIDE DEF e, g
  <2>2. s - e = h * 3600 + m * 60 + q * 2
    BY SMT, <1>3, <1>5, <1>7, <2>1 DEF e
  <2>3. ShownTime(v) = h * 3600 + m * 60 + q * 2 + 64 * g - 1
    BY SMT, <1>5, <1>7, <1>14, <2>1 DEF g
  <2> QED
    BY SMT, <1>6, <1>8, <2>2, <2>3 DEF e, g
<1> QED
  BY SMT, <1>2, <1>15 DEF s, n

(* An older client is always refused ...                                   *)
THEOREM OlderIsRefused ==
  ASSUME NEW client \in Version, NEW server \in Version, Older(client, server)
  PROVE  Refused(server, client)
BY SMT DEF Version, Older, Refused

(* ... and so is a newer one, when a lower component went back to zero.    *)
THEOREM NewerMayBeRefused ==
  \E client \in Version, server \in Version :
    Older(server, client) /\ Refused(server, client)
<1> DEFINE c == [major |-> 2, minor |-> 0, build |-> 0]
           s == [major |-> 1, minor |-> 1, build |-> 0]
<1>1. c \in Version /\ s \in Version
  BY SMT DEF Version
<1>2. Older(s, c) /\ Refused(s, c)
  BY SMT DEF Older, Refused
<1> QED
  BY SMT, <1>1, <1>2

=============================================================================
