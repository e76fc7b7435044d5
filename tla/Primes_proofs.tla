---------------------------- MODULE Primes_proofs ----------------------------
(***************************************************************************)
(* The sieve of processes prints the primes, and each of its pipes has one *)
(* reader and one writer, whatever n, the size of the pipes and the order  *)
(* of the steps.                                                           *)
(*                                                                         *)
(* The invariant speaks of the chain of processes: c[1] is main, c[2] the  *)
(* first filter, and so on up to c[m]; K[k] is the pipe that c[k] reads,   *)
(* and L[k] the level of c[k]: it has read, or main has written, what is   *)
(* below it and nothing else.                                              *)
(***************************************************************************)
EXTENDS Primes, SequenceTheorems, FiniteSetTheorems, TLAPS

Writing == {"send", "next", "pass"}
Reading == {"born", "first", "pipe", "next", "pass"}

\* Nothing is left of a process that has ended.
Nothing(p) ==
    /\ recibido[p] = 0 /\ numero[p] = 0 /\ pid[p] = InitProc /\ stdout[p] = <<>>
    /\ \A x \in Fds : u.fds[p][x] = Closed

\* The processes are a chain, each the parent of the next.
Chain(m, c) ==
    /\ m \in Nat
    /\ \A k \in 1..m : c[k] \in Procs
    /\ \A j, k \in 1..m : c[j] = c[k] => j = k
    /\ m > 0 => c[1] = Main /\ u.parent[Main] = InitProc
    /\ \A k \in 2..m : u.parent[c[k]] = c[k - 1] /\ pid[c[k - 1]] = c[k]
    /\ \A k \in 1..m : u.state[c[k]] = IF pc[c[k]] = "ended" THEN "zombie" ELSE "running"
    /\ \A p \in Procs : (\A k \in 1..m : c[k] # p) => u.state[p] = "none" /\ pc[p] = "ended"
    /\ \A p \in Procs : pc[p] = "ended" => Nothing(p)

\* Only the last one reads its first number, and they end from the last.
Places(m, c) ==
    /\ m = 1 => pc[c[1]] = "main"
    /\ m > 1 => pc[c[1]] \in {"send", "wait"}
    /\ \A k \in 2..m - 1 : pc[c[k]] \in {"next", "pass", "wait"}
    /\ m > 1 => pc[c[m]] \in {"born", "first", "pipe", "ended"}
    /\ \A k \in 2..m : pc[c[k]] = "wait" => pc[c[k - 1]] = "wait"

\* The descriptors, by name
Fd(f, padre0, padre1, hijo0, hijo1) ==
    /\ f["padre0"] = padre0 /\ f["padre1"] = padre1
    /\ f["hijo0"] = hijo0 /\ f["hijo1"] = hijo1

EndsOf(c, K, k) ==
    LET f == u.fds[c[k]]
        at == pc[c[k]]
    IN  /\ at \in {"main", "wait"} => Fd(f, Closed, Closed, Closed, Closed)
        /\ at = "send" => Fd(f, Closed, End(K[2], "w"), Closed, Closed)
        /\ at = "born" /\ k = 2 => Fd(f, End(K[2], "r"), End(K[2], "w"), Closed, Closed)
        /\ at = "born" /\ k > 2 => Fd(f, End(K[k - 1], "r"), Closed, End(K[k], "r"), End(K[k], "w"))
        /\ at \in {"first", "pipe"} => Fd(f, End(K[k], "r"), Closed, Closed, Closed)
        /\ at \in {"next", "pass"} => Fd(f, End(K[k], "r"), Closed, Closed, End(K[k + 1], "w"))

HasEnds(m, c, K) == \A k \in 1..m : EndsOf(c, K, k)

\* Somebody holds an end of K[k].
Used(m, c, k) ==
    \/ pc[c[k - 1]] \in Writing
    \/ pc[c[k]] \in Reading
    \/ k + 1 = m /\ pc[c[m]] = "born"

HasPipes(m, c, K) ==
    /\ \A k \in 2..m : K[k] \in Pipes
    /\ \A j, k \in 2..m : Used(m, c, j) /\ Used(m, c, k) /\ K[j] = K[k] => j = k

-----------------------------------------------------------------------------

\* What c[k] reads, from first to last
Numbers(c, k) == {v \in 2..n : \A j \in 2..k - 1 : v % recibido[c[j]] # 0}

\* The next number c[k] writes is not below this.
Sent(c, L, k) == IF pc[c[k]] = "pass" THEN numero[c[k]] ELSE L[k]

Increasing(s) == \A b \in 1..Len(s) : \A a \in 1..b - 1 : s[a] < s[b]
Elems(s) == {s[a] : a \in 1..Len(s)}

\* s holds those of N from a on and below b.
Queue(s, N, a, b) ==
    /\ a <= b /\ Increasing(s)
    /\ Elems(s) = {v \in N : a <= v /\ v < b}

\* The pipe that c[k] reads holds what is between it and its writer.
Flows(c, K, L, k) == Queue(u.pipe[K[k]], Numbers(c, k), L[k], Sent(c, L, k - 1))

\* The number of a filter is the first of those it reads.
Sieves(c, L, k) ==
    /\ recibido[c[k]] \in Numbers(c, k) /\ recibido[c[k]] < L[k]
    /\ \A v \in Numbers(c, k) : recibido[c[k]] <= v

\* What c[k] has read and what it is to write
StreamOf(c, L, k) ==
    /\ L[k] \in Nat /\ L[k] >= 2
    /\ pc[c[k]] = "wait" => L[k] > n
    /\ k = 1 => L[1] = i
    /\ pc[c[k]] = "main" => L[k] = 2
    /\ pc[c[k]] = "pipe" => L[k] = recibido[c[k]] + 1
    /\ k > 1 /\ pc[c[k]] \in {"born", "first"} => L[k] = 2 /\ recibido[c[k]] = 0
    /\ k > 1 /\ pc[c[k]] \in {"pipe", "next", "pass", "wait"} => Sieves(c, L, k)
    /\ pc[c[k]] = "pass" => numero[c[k]] \in Numbers(c, k + 1) /\ L[k] = numero[c[k]] + 1

Streams(m, c, K, L) ==
    /\ \A k \in 1..m : StreamOf(c, L, k)
    /\ \A k \in 2..m : pc[c[k]] \in Reading => Flows(c, K, L, k)

-----------------------------------------------------------------------------

Found(m, c) == {recibido[c[k]] : k \in 2..m} \ {0}
Alive(m, c) == m > 0 /\ pc[c[m]] # "ended"

\* What the last filter has printed, or would print if it ended now
Printed(m, c) == IF tty THEN Elems(output) ELSE Elems(stdout[c[m]])

\* Every prime below x is in s.
NoGap(s, x) == \A v \in PrimesTo(n) : v < x => v \in Elems(s)

Output(m, c) ==
    /\ Elems(output) \subseteq PrimesTo(n)
    /\ \A p \in Procs : Elems(stdout[p]) \subseteq PrimesTo(n)
    /\ tty => /\ \A p \in Procs : stdout[p] = <<>>
              /\ Increasing(output)
              /\ \A a \in 1..Len(output) : NoGap(output, output[a])
    /\ Alive(m, c) => Printed(m, c) = Found(m, c)
    /\ failed \/ Alive(m, c) \/ PrimesTo(n) \subseteq Elems(output)

Sieve(m, c, K, L) ==
    /\ Chain(m, c) /\ Places(m, c) /\ HasEnds(m, c, K) /\ HasPipes(m, c, K)
    /\ Streams(m, c, K, L) /\ Output(m, c)

IInv == TypeOK /\ \E m, c, K, L : Sieve(m, c, K, L)

-----------------------------------------------------------------------------
(***************************************************************************)
(* The numbers.                                                            *)
(***************************************************************************)

LEMMA DivEx ==
    ASSUME NEW v \in Nat, NEW d \in Nat \ {0}, v % d = 0
    PROVE  \E k \in Nat : v = k * d
<1>1. v = d * (v \div d) + (v % d) /\ v \div d \in Nat
  OBVIOUS
<1> QED
  BY <1>1

LEMMA ExDiv ==
    ASSUME NEW d \in Nat \ {0}, NEW k \in Nat
    PROVE  (k * d) % d = 0
<1> DEFINE v == k * d
           a == v \div d
           r == v % d
<1>1. v \in Nat /\ v = d * a + r /\ r \in 0..d - 1 /\ a \in Nat
  OBVIOUS
<1>2. (k - a) * d = r
  BY <1>1
<1>3. CASE k - a <= 0
  <2>1. (k - a) * d <= 0
    BY <1>3, <1>1
  <2> QED
    BY <2>1, <1>1, <1>2
<1>4. CASE k - a >= 1
  <2>1. (k - a) * d >= d
    BY <1>4, <1>1
  <2> QED
    BY <2>1, <1>1, <1>2
<1> QED
  BY <1>3, <1>4, <1>1

LEMMA DivTrans ==
    ASSUME NEW v \in Nat, NEW d \in Nat \ {0}, NEW q \in Nat \ {0}, v % d = 0, d % q = 0
    PROVE  v % q = 0
<1>1. PICK k \in Nat : v = k * d
  BY DivEx
<1>2. PICK j \in Nat : d = j * q
  BY DivEx
<1>3. v = (k * j) * q /\ k * j \in Nat
  BY <1>1, <1>2
<1> QED
  BY <1>3, ExDiv

\* The first number that no filter so far has taken out is a prime.
LEMMA FirstIsPrime ==
    ASSUME NEW N \in Nat, NEW v \in 2..N, NEW Q, \A q \in Q : q \in Nat \ {0, 1},
           \A q \in Q : v % q # 0,
           \A w \in 2..N : (\A q \in Q : w % q # 0) => v <= w
    PROVE  v \in PrimesTo(N)
<1> SUFFICES ASSUME NEW d \in 2..v - 1, v % d = 0
             PROVE  FALSE
  BY DEF PrimesTo
<1>1. PICK q \in Q : d % q = 0
  OBVIOUS
<1>2. v % q = 0
  BY <1>1, DivTrans
<1> QED
  BY <1>2

\* A filter takes out no prime but its own number.
LEMMA PrimeStays ==
    ASSUME NEW N \in Nat, NEW v \in PrimesTo(N), NEW q \in Nat \ {0, 1}, v # q
    PROVE  v % q # 0
<1>1. CASE q < v
  BY <1>1 DEF PrimesTo
<1>2. CASE q > v
  <2>1. v % q = v
    BY <1>2 DEF PrimesTo
  <2> QED
    BY <2>1 DEF PrimesTo
<1> QED
  BY <1>1, <1>2 DEF PrimesTo

LEMMA IncreasingAppend ==
    ASSUME NEW S, NEW s \in Seq(S), NEW v \in S, Increasing(s), \A w \in Elems(s) : w < v
    PROVE  Increasing(Append(s, v))
<1>1. /\ Len(Append(s, v)) = Len(s) + 1 /\ Append(s, v)[Len(s) + 1] = v /\ Len(s) \in Nat
      /\ \A a \in 1..Len(s) : Append(s, v)[a] = s[a]
  OBVIOUS
<1> QED
  BY <1>1 DEF Increasing, Elems

LEMMA ElemsAppend ==
    ASSUME NEW S, NEW s \in Seq(S), NEW v \in S
    PROVE  Elems(Append(s, v)) = Elems(s) \cup {v}
<1>1. /\ Len(Append(s, v)) = Len(s) + 1 /\ Append(s, v)[Len(s) + 1] = v /\ Len(s) \in Nat
      /\ \A a \in 1..Len(s) : Append(s, v)[a] = s[a]
  OBVIOUS
<1> DEFINE t == Append(s, v)
<1> HIDE DEF t
<1> QED
  BY <1>1 DEF Elems, t

LEMMA ElemsConcat ==
    ASSUME NEW S, NEW s \in Seq(S), NEW t \in Seq(S)
    PROVE  Elems(s \o t) = Elems(s) \cup Elems(t)
<1> DEFINE r == s \o t
<1>1. /\ Len(r) = Len(s) + Len(t) /\ Len(s) \in Nat /\ Len(t) \in Nat
      /\ \A a \in 1..Len(s) : r[a] = s[a]
      /\ \A a \in Len(s) + 1..Len(s) + Len(t) : r[a] = t[a - Len(s)]
  OBVIOUS
<1>2. \A a \in 1..Len(t) : a + Len(s) \in Len(s) + 1..Len(s) + Len(t) /\ (a + Len(s)) - Len(s) = a
  BY <1>1
<1>3. \A a \in 1..Len(t) : r[a + Len(s)] = t[a] /\ a + Len(s) \in 1..Len(r)
  BY <1>1, <1>2
<1> HIDE DEF r
<1>4. Elems(r) \subseteq Elems(s) \cup Elems(t)
  <2> SUFFICES ASSUME NEW a \in 1..Len(r)
               PROVE  r[a] \in Elems(s) \cup Elems(t)
    BY DEF Elems
  <2>1. CASE a \in 1..Len(s)
    BY <2>1, <1>1 DEF Elems
  <2>2. CASE a \in Len(s) + 1..Len(s) + Len(t)
    <3>1. a - Len(s) \in 1..Len(t) /\ r[a] = t[a - Len(s)]
      BY <2>2, <1>1
    <3> QED
      BY <3>1 DEF Elems
  <2> QED
    BY <2>1, <2>2, <1>1
<1>5. Elems(s) \subseteq Elems(r)
  BY <1>1 DEF Elems
<1>6. Elems(t) \subseteq Elems(r)
  BY <1>3 DEF Elems
<1> QED
  BY <1>4, <1>5, <1>6 DEF r

\* The first of an increasing sequence is the least, and the rest increases.
LEMMA HeadIsLeast ==
    ASSUME NEW s \in Seq(Nat), s # <<>>, Increasing(s)
    PROVE  /\ Head(s) \in Elems(s) /\ Head(s) \in Nat
           /\ Increasing(Tail(s))
           /\ Elems(Tail(s)) = {v \in Elems(s) : v > Head(s)}
<1> DEFINE t == Tail(s)
           h == Head(s)
<1>1. /\ Len(s) \in Nat \ {0} /\ Len(t) = Len(s) - 1 /\ h = s[1] /\ h \in Nat
      /\ \A a \in 1..Len(t) : t[a] = s[a + 1]
      /\ \A a \in 1..Len(s) : s[a] \in Nat
  OBVIOUS
<1> HIDE DEF t, h
<1>2. \A a \in 2..Len(s) : s[a] > h /\ a - 1 \in 1..Len(t) /\ t[a - 1] = s[a]
  <2> SUFFICES ASSUME NEW a \in 2..Len(s)
               PROVE  s[a] > h /\ a - 1 \in 1..Len(t) /\ t[a - 1] = s[a]
    OBVIOUS
  <2>1. a - 1 \in 1..Len(t) /\ (a - 1) + 1 = a
    BY <1>1
  <2>2. 1 \in 1..a - 1
    BY <1>1
  <2> QED
    BY <1>1, <2>1, <2>2 DEF Increasing
<1>3. h \in Elems(s)
  BY <1>1 DEF Elems
<1>4. Increasing(t)
  <2> SUFFICES ASSUME NEW b \in 1..Len(t), NEW a \in 1..b - 1
               PROVE  t[a] < t[b]
    BY DEF Increasing
  <2>1. b + 1 \in 1..Len(s) /\ a + 1 \in 1..(b + 1) - 1 /\ a \in 1..Len(t)
    BY <1>1
  <2>2. s[a + 1] < s[b + 1]
    BY <2>1 DEF Increasing
  <2> QED
    BY <2>1, <2>2, <1>1
<1>5. Elems(t) \subseteq {v \in Elems(s) : v > h}
  <2> SUFFICES ASSUME NEW a \in 1..Len(t)
               PROVE  t[a] \in Elems(s) /\ t[a] > h
    BY DEF Elems
  <2>1. a + 1 \in 2..Len(s) /\ t[a] = s[a + 1]
    BY <1>1
  <2> QED
    BY <2>1, <1>1, <1>2 DEF Elems
<1>6. {v \in Elems(s) : v > h} \subseteq Elems(t)
  <2> SUFFICES ASSUME NEW a \in 1..Len(s), s[a] > h
               PROVE  s[a] \in Elems(t)
    BY DEF Elems
  <2>1. a \in 2..Len(s)
    BY <1>1
  <2> QED
    BY <2>1, <1>2 DEF Elems
<1> QED
  BY <1>1, <1>3, <1>4, <1>5, <1>6 DEF t, h

-----------------------------------------------------------------------------
(***************************************************************************)
(* The system calls, field by field.                                       *)
(***************************************************************************)

LEMMA UnixFields ==
    ASSUME NEW x \in UnixType
    PROVE  /\ x.state \in [Procs -> {"none", "running", "zombie"}]
           /\ x.parent \in [Procs -> Procs \cup {InitProc}]
           /\ x.fds \in [Procs -> [Fds -> Ends \cup {Closed, Plain}]]
           /\ x.pipe \in [Pipes -> Seq(Nat)]
  BY DEF UnixType

LEMMA EndEs ==
    ASSUME NEW a, NEW b, NEW r, NEW s
    PROVE  /\ End(a, r) = End(b, s) <=> a = b /\ r = s
           /\ End(a, r) # Closed
           /\ End(a, r)[1] = a
           /\ a \in Pipes /\ r \in {"r", "w"} => End(a, r) \in Ends
           /\ Closed \notin Ends
  BY DEF End, Closed, Ends

LEMMA ReadEs ==
    ASSUME NEW x \in UnixType, NEW p \in Procs, NEW d \in Fds, NEW k \in Pipes,
           x.fds[p][d] = End(k, "r"), CanRead(x, p, d)
    PROVE  /\ Read(x, p, d) \in UnixType
           /\ Read(x, p, d).state = x.state /\ Read(x, p, d).parent = x.parent
           /\ Read(x, p, d).fds = x.fds
           /\ Read(x, p, d).pipe[k] = Tail(x.pipe[k])
           /\ \A j \in Pipes \ {k} : Read(x, p, d).pipe[j] = x.pipe[j]
           /\ Front(x, p, d) = Head(x.pipe[k])
           /\ x.pipe[k] # <<>>
<1>1. Source(x, p, d) = k
  BY EndEs DEF Source
<1>2. x.pipe[k] # <<>> /\ x.pipe[k] \in Seq(Nat)
  BY <1>1, UnixFields DEF CanRead
<1>3. Tail(x.pipe[k]) \in Seq(Nat)
  BY <1>2
<1> QED
  BY <1>1, <1>2, <1>3 DEF Read, UnixType, Front

LEMMA CloseEs ==
    ASSUME NEW x \in UnixType, NEW p \in Procs, NEW D
    PROVE  /\ Close(x, p, D) \in UnixType
           /\ Close(x, p, D).state = x.state /\ Close(x, p, D).parent = x.parent
           /\ Close(x, p, D).pipe = x.pipe
           /\ \A q \in Procs \ {p} : Close(x, p, D).fds[q] = x.fds[q]
           /\ \A d \in Fds : Close(x, p, D).fds[p][d] = IF d \in D THEN Closed ELSE x.fds[p][d]
<1>1. [d \in Fds |-> IF d \in D THEN Closed ELSE x.fds[p][d]] \in [Fds -> Ends \cup {Closed, Plain}]
  BY UnixFields
<1> QED
  BY <1>1 DEF Close, UnixType

\* What exit(2) of p makes of x
Exited(x, p, y) ==
    /\ y \in UnixType
    /\ y.pipe = x.pipe
    /\ \A q \in Procs \ {p} : y.fds[q] = x.fds[q]
    /\ \A d \in Fds : y.fds[p][d] = Closed
    /\ \A q \in Procs : y.state[q] =
          IF x.parent[q] = p /\ x.state[q] = "zombie" THEN "none"
          ELSE IF q = p THEN (IF x.parent[p] = InitProc THEN "none" ELSE "zombie")
          ELSE x.state[q]
    /\ \A q \in Procs : y.parent[q] =
          IF x.parent[q] = p \/ (q = p /\ x.parent[p] = InitProc) THEN InitProc ELSE x.parent[q]

LEMMA ExitEs ==
    ASSUME NEW x \in UnixType, NEW p \in Procs
    PROVE  Exited(x, p, Exit(x, p))
  BY DEF Exited, Exit, UnixType

LEMMA ReapEs ==
    ASSUME NEW x \in UnixType, NEW p \in Procs
    PROVE  /\ Reap(x, p) \in UnixType
           /\ Reap(x, p).pipe = x.pipe /\ Reap(x, p).fds = x.fds
           /\ \A q \in Procs : Reap(x, p).state[q] = IF q = p THEN "none" ELSE x.state[q]
           /\ \A q \in Procs : Reap(x, p).parent[q] = IF q = p THEN InitProc ELSE x.parent[q]
  BY DEF Reap, UnixType

\* pipe(2) and fork(2), the parent closing D
Branch(x, p, rd, wr, D) == Close(Fork(Pipe(x, p, rd, wr), p), p, D)

LEMMA FreeProcEs ==
    ASSUME NEW x \in UnixType, CanFork(x)
    PROVE  FreeProc(x) \in Procs /\ x.state[FreeProc(x)] = "none"
  BY DEF CanFork, FreeProc

LEMMA FreePipeEs ==
    ASSUME NEW x \in UnixType, CanPipe(x)
    PROVE  FreePipe(x) \in Pipes /\ Unheld(x, FreePipe(x))
  BY DEF CanPipe, FreePipe

LEMMA PipeEs ==
    ASSUME NEW x \in UnixType, CanPipe(x), NEW p \in Procs, NEW rd \in Fds, NEW wr \in Fds, rd # wr
    PROVE  LET k == FreePipe(x)
               y == Pipe(x, p, rd, wr)
           IN  /\ y \in UnixType /\ y.state = x.state /\ y.parent = x.parent
               /\ y.pipe[k] = <<>> /\ \A j \in Pipes \ {k} : y.pipe[j] = x.pipe[j]
               /\ \A q \in Procs \ {p} : y.fds[q] = x.fds[q]
               /\ y.fds[p][rd] = End(k, "r") /\ y.fds[p][wr] = End(k, "w")
               /\ \A d \in Fds \ {rd, wr} : y.fds[p][d] = x.fds[p][d]
<1> DEFINE k == FreePipe(x)
<1>1. k \in Pipes
  BY FreePipeEs
<1>2. End(k, "r") \in Ends /\ End(k, "w") \in Ends
  BY <1>1, EndEs
<1> HIDE DEF k
<1>3. /\ x.fds \in [Procs -> [Fds -> Ends \cup {Closed, Plain}]] /\ x.pipe \in [Pipes -> Seq(Nat)]
      /\ <<>> \in Seq(Nat)
  BY UnixFields
<1>4. Pipe(x, p, rd, wr) = [x EXCEPT !.fds[p][rd] = End(k, "r"), !.fds[p][wr] = End(k, "w"), !.pipe[k] = <<>>]
  BY DEF Pipe, k
<1> DEFINE y == Pipe(x, p, rd, wr)
           f == [[x.fds[p] EXCEPT ![rd] = End(k, "r")] EXCEPT ![wr] = End(k, "w")]
<1>5. f \in [Fds -> Ends \cup {Closed, Plain}]
  BY <1>2, <1>3
<1>6. /\ f[rd] = End(k, "r") /\ f[wr] = End(k, "w")
      /\ \A d \in Fds \ {rd, wr} : f[d] = x.fds[p][d]
  BY <1>3
<1>7. y = [x EXCEPT !.fds = [x.fds EXCEPT ![p] = f], !.pipe = [x.pipe EXCEPT ![k] = <<>>]]
  BY <1>3, <1>4 DEF UnixType
<1> HIDE DEF f, y
<1>8. /\ y.fds = [x.fds EXCEPT ![p] = f] /\ y.pipe = [x.pipe EXCEPT ![k] = <<>>]
      /\ y.state = x.state /\ y.parent = x.parent
  BY <1>7 DEF UnixType
<1>9. y \in UnixType
  BY <1>1, <1>3, <1>5, <1>7 DEF UnixType
<1> QED
  BY <1>1, <1>3, <1>6, <1>8, <1>9 DEF k, y

LEMMA ForkEs ==
    ASSUME NEW x \in UnixType, CanFork(x), NEW p \in Procs
    PROVE  LET b == FreeProc(x)
               y == Fork(x, p)
           IN  /\ y \in UnixType /\ y.pipe = x.pipe
               /\ y.state[b] = "running" /\ y.parent[b] = p /\ y.fds[b] = x.fds[p]
               /\ \A q \in Procs \ {b} :
                     y.state[q] = x.state[q] /\ y.parent[q] = x.parent[q] /\ y.fds[q] = x.fds[q]
<1>1. FreeProc(x) \in Procs
  BY FreeProcEs
<1>2. x.fds[p] \in [Fds -> Ends \cup {Closed, Plain}]
  BY UnixFields
<1> QED
  BY <1>1, <1>2 DEF Fork, UnixType

\* What it makes of x, b being the child and k the pipe
Branched(x, p, rd, wr, b, k, y) ==
    /\ b \in Procs \ {p} /\ x.state[b] = "none" /\ k \in Pipes /\ Unheld(x, k)
    /\ y \in UnixType
    /\ y.pipe[k] = <<>> /\ \A j \in Pipes \ {k} : y.pipe[j] = x.pipe[j]
    /\ y.state[b] = "running" /\ y.parent[b] = p
    /\ y.fds[b][rd] = End(k, "r") /\ y.fds[b][wr] = End(k, "w")
    /\ \A d \in Fds \ {rd, wr} : y.fds[b][d] = x.fds[p][d]
    /\ y.fds[p][rd] = Closed /\ y.fds[p][wr] = End(k, "w")
    /\ \A d \in Fds \ {rd, wr} : y.fds[p][d] = x.fds[p][d]
    /\ \A q \in Procs \ {b} : y.state[q] = x.state[q] /\ y.parent[q] = x.parent[q]
    /\ \A q \in Procs \ {b, p} : y.fds[q] = x.fds[q]

LEMMA BranchEs ==
    ASSUME NEW x \in UnixType, CanPipe(x), CanFork(x), NEW p \in Procs, x.state[p] = "running",
           NEW rd \in Fds, NEW wr \in Fds, rd # wr
    PROVE  /\ Branched(x, p, rd, wr, FreeProc(x), FreePipe(x), Branch(x, p, rd, wr, {rd}))
           /\ FreeProc(Pipe(x, p, rd, wr)) = FreeProc(x)
<1> DEFINE b == FreeProc(x)
           k == FreePipe(x)
           z == Pipe(x, p, rd, wr)
           w == Fork(z, p)
           y == Branch(x, p, rd, wr, {rd})
<1>1. b \in Procs /\ x.state[b] = "none" /\ b # p /\ k \in Pipes /\ Unheld(x, k)
  BY FreeProcEs, FreePipeEs
<1>2. /\ z \in UnixType /\ z.state = x.state /\ z.parent = x.parent
      /\ z.pipe[k] = <<>> /\ \A j \in Pipes \ {k} : z.pipe[j] = x.pipe[j]
      /\ \A q \in Procs \ {p} : z.fds[q] = x.fds[q]
      /\ z.fds[p][rd] = End(k, "r") /\ z.fds[p][wr] = End(k, "w")
      /\ \A d \in Fds \ {rd, wr} : z.fds[p][d] = x.fds[p][d]
  BY PipeEs
<1>3. FreeProc(z) = b /\ CanFork(z)
  BY <1>2 DEF FreeProc, CanFork
<1>4. /\ w \in UnixType /\ w.pipe = z.pipe
      /\ w.state[b] = "running" /\ w.parent[b] = p /\ w.fds[b] = z.fds[p]
      /\ \A q \in Procs \ {b} : w.state[q] = z.state[q] /\ w.parent[q] = z.parent[q] /\ w.fds[q] = z.fds[q]
  BY <1>2, <1>3, ForkEs
<1>5. y = Close(w, p, {rd})
  BY DEF Branch
<1> HIDE DEF b, k, z, w, y
<1>6. /\ y \in UnixType /\ y.state = w.state /\ y.parent = w.parent /\ y.pipe = w.pipe
      /\ \A q \in Procs \ {p} : y.fds[q] = w.fds[q]
      /\ \A d \in Fds : y.fds[p][d] = IF d \in {rd} THEN Closed ELSE w.fds[p][d]
  BY <1>4, <1>5, CloseEs
<1>7. y.fds[b] = z.fds[p] /\ w.fds[p] = z.fds[p]
  BY <1>1, <1>4, <1>6
<1>8. /\ y.fds[b][rd] = End(k, "r") /\ y.fds[b][wr] = End(k, "w")
      /\ \A d \in Fds \ {rd, wr} : y.fds[b][d] = x.fds[p][d]
  BY <1>2, <1>7
<1>9. /\ y.fds[p][rd] = Closed /\ y.fds[p][wr] = End(k, "w")
      /\ \A d \in Fds \ {rd, wr} : y.fds[p][d] = x.fds[p][d]
  BY <1>2, <1>6, <1>7
<1>10. /\ \A q \in Procs \ {b} : y.state[q] = x.state[q] /\ y.parent[q] = x.parent[q]
       /\ \A q \in Procs \ {b, p} : y.fds[q] = x.fds[q]
  BY <1>2, <1>4, <1>6
<1>11. /\ y.pipe[k] = <<>> /\ \A j \in Pipes \ {k} : y.pipe[j] = x.pipe[j]
       /\ y.state[b] = "running" /\ y.parent[b] = p
  BY <1>2, <1>4, <1>6
<1> QED
  <2>1. Branched(x, p, rd, wr, b, k, y)
    BY <1>1, <1>3, <1>6, <1>8, <1>9, <1>10, <1>11 DEF Branched
  <2> QED
    BY <2>1, <1>3 DEF b, k, z, y

-----------------------------------------------------------------------------
(***************************************************************************)
(* Who is where, and what he holds.                                        *)
(***************************************************************************)

Structure(m, c, K) == Chain(m, c) /\ Places(m, c) /\ HasEnds(m, c, K) /\ HasPipes(m, c, K)

LEMMA Where ==
    ASSUME NEW m, NEW c, NEW K, Structure(m, c, K), NEW p \in Procs, Running(u, p)
    PROVE  \E k \in 1..m :
             /\ p = c[k] /\ pc[p] # "ended"
             /\ pc[p] = "main" => m = 1
             /\ pc[p] = "send" => k = 1 /\ m > 1
             /\ pc[p] \in {"born", "first", "pipe"} => k = m /\ m > 1
             /\ pc[p] \in {"next", "pass"} => k \in 2..m - 1
             /\ pc[p] = "wait" => k \in 1..m - 1
<1>1. m \in Nat
  BY DEF Structure, Chain
<1>2. PICK k \in 1..m : p = c[k]
  BY DEF Structure, Chain, Running
<1>3. pc[p] # "ended"
  BY <1>2 DEF Structure, Chain, Running
<1>4. CASE k = 1
  BY <1>1, <1>2, <1>3, <1>4 DEF Structure, Places
<1>5. CASE k \in 2..m - 1
  BY <1>1, <1>2, <1>3, <1>5 DEF Structure, Places
<1>6. CASE k = m /\ m > 1
  BY <1>1, <1>2, <1>3, <1>6 DEF Structure, Places
<1> QED
  BY <1>1, <1>4, <1>5, <1>6

\* Who may be at which label, by his place
LEMMA Labels ==
    ASSUME NEW m, NEW c, NEW K, Structure(m, c, K), NEW k \in 1..m
    PROVE  /\ m \in Nat /\ c[k] \in Procs
           /\ k = 1 => pc[c[k]] \in {"main", "send", "wait"} /\ (pc[c[k]] = "main" <=> m = 1)
           /\ k > 1 /\ k < m => pc[c[k]] \in {"next", "pass", "wait"}
           /\ k > 1 /\ k = m => pc[c[k]] \in {"born", "first", "pipe", "ended"}
<1>1. m \in Nat /\ c[k] \in Procs
  BY DEF Structure, Chain
<1>2. CASE k = 1
  BY <1>1, <1>2 DEF Structure, Places
<1>3. CASE k \in 2..m - 1
  BY <1>1, <1>3 DEF Structure, Places
<1>4. CASE k = m /\ m > 1
  BY <1>1, <1>4 DEF Structure, Places
<1> QED
  BY <1>1, <1>2, <1>3, <1>4

LEMMA EndsAre ==
    ASSUME NEW m, NEW c, NEW K, Structure(m, c, K), NEW k \in 1..m
    PROVE  EndsOf(c, K, k)
  BY DEF Structure, HasEnds

\* Every process but those that are born holds what it uses by these names.
LEMMA Holds ==
    ASSUME NEW m, NEW c, NEW K, Structure(m, c, K), NEW k \in 2..m
    PROVE  LET f == u.fds[c[k]]
               g == u.fds[c[k - 1]]
           IN  /\ pc[c[k]] \in Reading \ {"born"} => f["padre0"] = End(K[k], "r")
               /\ pc[c[k]] = "born" => f["padre0"] = End(K[k], "r") \/ f["hijo0"] = End(K[k], "r")
               /\ pc[c[k]] = "born" => f["padre1"] = End(K[k], "w") \/ f["hijo1"] = End(K[k], "w")
               /\ pc[c[k - 1]] = "send" => g["padre1"] = End(K[k], "w")
               /\ pc[c[k - 1]] \in {"next", "pass"} => g["hijo1"] = End(K[k], "w")
<1>1. m \in Nat /\ k - 1 \in 1..m /\ (k - 1) + 1 = k /\ k \in 1..m
  BY DEF Structure, Chain
<1>2. EndsOf(c, K, k) /\ EndsOf(c, K, k - 1)
  BY <1>1, EndsAre
<1>3. /\ pc[c[k]] \in Reading \ {"born"} => u.fds[c[k]]["padre0"] = End(K[k], "r")
      /\ pc[c[k]] = "born" =>
            /\ u.fds[c[k]]["padre0"] = End(K[k], "r") \/ u.fds[c[k]]["hijo0"] = End(K[k], "r")
            /\ u.fds[c[k]]["padre1"] = End(K[k], "w") \/ u.fds[c[k]]["hijo1"] = End(K[k], "w")
  BY <1>2 DEF EndsOf, Fd, Reading
<1>4. pc[c[k - 1]] = "send" => k = 2
  BY <1>1, Labels
<1>5. /\ pc[c[k - 1]] = "send" => u.fds[c[k - 1]]["padre1"] = End(K[k], "w")
      /\ pc[c[k - 1]] \in {"next", "pass"} => u.fds[c[k - 1]]["hijo1"] = End(K[k], "w")
  BY <1>1, <1>2, <1>4 DEF EndsOf, Fd
<1> QED
  BY <1>3, <1>5

LEMMA UsedIsHeld ==
    ASSUME NEW m, NEW c, NEW K, Structure(m, c, K), NEW k \in 2..m, Used(m, c, k)
    PROVE  ~Unheld(u, K[k])
<1>1. m \in Nat /\ k - 1 \in 1..m /\ k \in 1..m /\ c[k] \in Procs /\ c[k - 1] \in Procs
  BY DEF Structure, Chain
<1>2. {"padre0", "padre1", "hijo0", "hijo1"} \subseteq Fds
  BY FdsAssumption
<1>3. CASE pc[c[k - 1]] \in Writing
  <2>1. \E d \in Fds : u.fds[c[k - 1]][d] = End(K[k], "w")
    BY <1>2, <1>3, Holds DEF Writing
  <2>2. c[k - 1] \in Holders(u, End(K[k], "w"))
    BY <1>1, <2>1 DEF Holders
  <2> QED
    BY <2>2 DEF Unheld
<1>4. CASE pc[c[k]] \in Reading
  <2>1. \E d \in Fds : u.fds[c[k]][d] = End(K[k], "r")
    BY <1>2, <1>4, Holds DEF Reading
  <2>2. c[k] \in Holders(u, End(K[k], "r"))
    BY <1>1, <2>1 DEF Holders
  <2> QED
    BY <2>2 DEF Unheld
<1>5. CASE k + 1 = m /\ pc[c[m]] = "born"
  <2>1. m \in 1..m /\ m > 2 /\ m - 1 = k /\ c[m] \in Procs
    BY <1>1, <1>5 DEF Structure, Chain
  <2>2. EndsOf(c, K, m)
    BY <2>1, EndsAre
  <2>3. u.fds[c[m]]["padre0"] = End(K[k], "r")
    BY <1>5, <2>1, <2>2 DEF EndsOf, Fd
  <2>4. c[m] \in Holders(u, End(K[k], "r"))
    BY <1>2, <2>1, <2>3 DEF Holders
  <2> QED
    BY <2>4 DEF Unheld
<1> QED
  BY <1>3, <1>4, <1>5 DEF Used

\* The end of a pipe comes when its writer waits, not before.
LEMMA EofMeansWaits ==
    ASSUME NEW m, NEW c, NEW K, Structure(m, c, K), NEW k \in 2..m,
           pc[c[k]] \in {"first", "next"}, AtEof(u, c[k], "padre0")
    PROVE  pc[c[k - 1]] = "wait" /\ u.pipe[K[k]] = <<>>
<1>1. m \in Nat /\ k - 1 \in 1..m /\ k - 1 < m /\ c[k - 1] \in Procs /\ K[k] \in Pipes
  BY DEF Structure, Chain, HasPipes
<1>2. u.fds[c[k]]["padre0"] = End(K[k], "r")
  BY Holds DEF Reading
<1>3. IsPipe(u, c[k], "padre0") /\ Source(u, c[k], "padre0") = K[k]
  BY <1>1, <1>2, EndEs DEF IsPipe, Source
<1>4. u.pipe[K[k]] = <<>> /\ Holders(u, End(K[k], "w")) = {}
  BY <1>3 DEF AtEof, CanRead
<1>5. pc[c[k - 1]] \notin Writing
  <2> SUFFICES ASSUME pc[c[k - 1]] \in Writing
               PROVE  FALSE
    OBVIOUS
  <2>1. \E d \in Fds : u.fds[c[k - 1]][d] = End(K[k], "w")
    BY FdsAssumption, Holds DEF Writing
  <2> QED
    BY <1>1, <1>4, <2>1 DEF Holders
<1>6. pc[c[k - 1]] \in {"send", "next", "pass", "wait"}
  BY <1>1, Labels
<1> QED
  BY <1>4, <1>5, <1>6 DEF Writing

\* A pipe breaks when its reader has ended, not before.
LEMMA BrokenMeansEnded ==
    ASSUME NEW m, NEW c, NEW K, Structure(m, c, K), NEW k \in 2..m, NEW d \in Fds,
           pc[c[k - 1]] \in Writing, u.fds[c[k - 1]][d] = End(K[k], "w"), Broken(u, c[k - 1], d)
    PROVE  k = m /\ pc[c[m]] = "ended"
<1>1. m \in Nat /\ k \in 1..m /\ c[k] \in Procs
  BY DEF Structure, Chain
<1>2. Holders(u, End(K[k], "r")) = {}
  BY EndEs DEF Broken, Source
<1>3. pc[c[k]] \notin Reading
  <2> SUFFICES ASSUME pc[c[k]] \in Reading
               PROVE  FALSE
    OBVIOUS
  <2>1. \E x \in Fds : u.fds[c[k]][x] = End(K[k], "r")
    BY FdsAssumption, Holds DEF Reading
  <2> QED
    BY <1>1, <1>2, <2>1 DEF Holders
<1>4. pc[c[k]] # "wait"
  BY DEF Structure, Places, Writing
<1> QED
  BY <1>1, <1>3, <1>4, Labels DEF Reading

\* What OneReaderOneWriter says of the pipe that c[k] reads
LEMMA OnePipe ==
    ASSUME NEW m, NEW c, NEW K, Structure(m, c, K), NEW k \in 2..m,
           pc[c[k]] \in Reading \ {"born"}
    PROVE  /\ {x \in Holders(u, End(K[k], "r")) : pc[x] # "born"} = {c[k]}
           /\ Holders(u, End(K[k], "w")) \subseteq {c[k - 1]}
<1>1. m \in Nat /\ k \in 1..m /\ c[k] \in Procs /\ Fds = {"padre0", "padre1", "hijo0", "hijo1"}
  BY FdsAssumption DEF Structure, Chain
<1>2. c[k] \in Holders(u, End(K[k], "r"))
  BY <1>1, Holds DEF Holders
<1>3. \A j \in 1..m : pc[c[j]] = "ended" => \A d \in Fds : u.fds[c[j]][d] = Closed
  BY <1>1 DEF Structure, Chain, Nothing
<1>4. ASSUME NEW x \in Procs, NEW d \in Fds, NEW s \in {"r", "w"}, u.fds[x][d] = End(K[k], s)
      PROVE  \E j \in 1..m : x = c[j] /\ pc[x] # "ended"
  <2>1. CASE \A j \in 1..m : c[j] # x
    <3>1. u.fds[x][d] = Closed
      BY <2>1 DEF Structure, Chain, Nothing
    <3>2. End(K[k], s) # Closed
      BY EndEs
    <3> QED
      BY <1>4, <3>1, <3>2
  <2>2. CASE \E j \in 1..m : c[j] = x
    BY <1>3, <1>4, <2>2, EndEs
  <2> QED
    BY <2>1, <2>2
<1>5. Used(m, c, k)
  BY DEF Used
<1>6. ASSUME NEW x \in Procs, NEW d \in Fds, u.fds[x][d] = End(K[k], "r"), pc[x] # "born"
      PROVE  x = c[k]
  <2>1. PICK j \in 1..m : x = c[j] /\ pc[x] # "ended"
    BY <1>4, <1>6
  <2>2. EndsOf(c, K, j)
    BY EndsAre
  <2>3. pc[x] \in {"main", "send", "wait", "first", "pipe", "next", "pass"}
    BY <1>1, <1>6, <2>1, Labels
  <2>4. pc[x] \in {"first", "pipe", "next", "pass"} /\ K[j] = K[k]
    BY <1>1, <1>6, <2>1, <2>2, <2>3, EndEs DEF EndsOf, Fd
  <2>5. j # 1
    BY <2>1, <2>4, Labels
  <2>6. j \in 2..m /\ Used(m, c, j)
    BY <1>1, <2>1, <2>4, <2>5 DEF Used, Reading
  <2> QED
    BY <1>5, <2>1, <2>4, <2>6 DEF Structure, HasPipes
<1>7. ASSUME NEW x \in Procs, NEW d \in Fds, u.fds[x][d] = End(K[k], "w")
      PROVE  x = c[k - 1]
  <2>1. PICK j \in 1..m : x = c[j] /\ pc[x] # "ended"
    BY <1>4, <1>7
  <2>2. EndsOf(c, K, j)
    BY EndsAre
  <2>3. pc[x] \in {"main", "send", "wait", "born", "first", "pipe", "next", "pass"}
    BY <1>1, <2>1, Labels
  <2>4. CASE pc[x] = "born"
    <3>1. j = m /\ m > 1
      BY <1>1, <2>1, <2>4, Labels
    <3>2. K[j] = K[k]
      BY <1>1, <1>7, <2>1, <2>2, <2>4, <3>1, EndEs DEF EndsOf, Fd
    <3>3. j \in 2..m /\ Used(m, c, j)
      BY <1>1, <2>1, <2>4, <3>1 DEF Used, Reading
    <3>4. j = k
      BY <1>5, <3>2, <3>3 DEF Structure, HasPipes
    <3> QED
      BY <2>1, <2>4, <3>4
  <2>5. CASE pc[x] = "send"
    <3>1. j = 1 /\ m > 1
      BY <1>1, <2>1, <2>5, Labels
    <3>2. K[2] = K[k]
      BY <1>1, <1>7, <2>1, <2>2, <2>5, EndEs DEF EndsOf, Fd
    <3>3. 2 \in 2..m /\ Used(m, c, 2) /\ 2 - 1 = 1
      BY <1>1, <2>1, <2>5, <3>1 DEF Used, Writing
    <3> QED
      BY <1>5, <2>1, <3>1, <3>2, <3>3 DEF Structure, HasPipes
  <2>6. CASE pc[x] \in {"next", "pass"}
    <3>1. j \in 2..m - 1
      BY <1>1, <2>1, <2>6, Labels
    <3>2. K[j + 1] = K[k]
      BY <1>1, <1>7, <2>1, <2>2, <2>6, EndEs DEF EndsOf, Fd
    <3>3. j + 1 \in 2..m /\ (j + 1) - 1 = j
      BY <1>1, <3>1
    <3>4. Used(m, c, j + 1)
      BY <2>1, <2>6, <3>3 DEF Used, Writing
    <3>5. j + 1 = k
      BY <1>5, <3>2, <3>3, <3>4 DEF Structure, HasPipes
    <3> QED
      BY <2>1, <3>3, <3>5
  <2>7. CASE pc[x] \in {"main", "wait", "first", "pipe"}
    BY <1>1, <1>7, <2>1, <2>2, <2>7, EndEs DEF EndsOf, Fd
  <2> QED
    BY <2>3, <2>4, <2>5, <2>6, <2>7
<1>8. {x \in Holders(u, End(K[k], "r")) : pc[x] # "born"} \subseteq {c[k]}
  BY <1>6 DEF Holders
<1>9. Holders(u, End(K[k], "w")) \subseteq {c[k - 1]}
  BY <1>7 DEF Holders
<1> QED
  BY <1>2, <1>8, <1>9 DEF Reading

LEMMA PairIsSmall ==
    ASSUME NEW a, NEW b, NEW S, S \subseteq {a, b}
    PROVE  Cardinality(S) <= 2
<1>1. IsFiniteSet({a}) /\ Cardinality({a}) = 1
  BY FS_Singleton
<1>2. IsFiniteSet({a, b}) /\ Cardinality({a, b}) <= 2
  <2>1. {a, b} = {a} \cup {b}
    OBVIOUS
  <2>2. IsFiniteSet({a} \cup {b}) /\ (Cardinality({a} \cup {b}) = 1 \/ Cardinality({a} \cup {b}) = 2)
    BY <1>1, FS_AddElement
  <2> QED
    BY <2>1, <2>2
<1>3. IsFiniteSet(S) /\ Cardinality(S) <= Cardinality({a, b})
  BY <1>2, FS_Subset
<1>4. Cardinality(S) \in Nat /\ Cardinality({a, b}) \in Nat
  BY <1>2, <1>3, FS_CardinalityType
<1> QED
  BY <1>2, <1>3, <1>4

LEMMA StructureHolds ==
    ASSUME NEW m, NEW c, NEW K, Structure(m, c, K)
    PROVE  OneReaderOneWriter
<1>1. ASSUME NEW p \in Procs, Running(u, p), pc[p] \in {"first", "pipe", "next", "pass"}
      PROVE  LET k == Source(u, p, "padre0")
             IN  /\ {x \in Holders(u, End(k, "r")) : pc[x] # "born"} = {p}
                 /\ Holders(u, End(k, "w")) \subseteq {u.parent[p]}
  <2>1. PICK k \in 1..m : p = c[k] /\ k > 1
    <3>1. PICK k \in 1..m : /\ p = c[k]
                            /\ pc[p] \in {"born", "first", "pipe"} => k = m /\ m > 1
                            /\ pc[p] \in {"next", "pass"} => k \in 2..m - 1
      BY <1>1, Where
    <3>2. m \in Nat
      BY DEF Structure, Chain
    <3>3. k > 1
      BY <1>1, <3>1, <3>2
    <3> QED
      BY <3>1, <3>3
  <2>2. m \in Nat /\ k \in 2..m
    BY <2>1 DEF Structure, Chain
  <2>3. pc[c[k]] \in Reading \ {"born"}
    BY <1>1, <2>1 DEF Reading
  <2>4. u.fds[p]["padre0"] = End(K[k], "r")
    BY <2>1, <2>2, <2>3, Holds
  <2>5. Source(u, p, "padre0") = K[k]
    BY <2>4, EndEs DEF Source
  <2>6. u.parent[p] = c[k - 1]
    BY <2>1, <2>2 DEF Structure, Chain
  <2> QED
    BY <2>1, <2>2, <2>3, <2>5, <2>6, OnePipe
<1>2. ASSUME NEW p \in Procs, Running(u, p), pc[p] # "born"
      PROVE  Cardinality(Held(u, p)) <= 2
  <2>1. PICK k \in 1..m : p = c[k] /\ pc[p] # "ended"
    BY <1>2, Where
  <2>2. EndsOf(c, K, k)
    BY EndsAre
  <2>3. pc[p] \in {"main", "send", "wait", "first", "pipe", "next", "pass"}
    BY <1>2, <2>1, Labels DEF Structure, Chain
  <2>4. Held(u, p) \subseteq {u.fds[p]["padre0"], u.fds[p]["padre1"], u.fds[p]["hijo1"]} \ {Closed}
    <3>1. u.fds[p]["hijo0"] = Closed
      BY <2>1, <2>2, <2>3 DEF EndsOf, Fd
    <3> QED
      BY <3>1, FdsAssumption, EndEs DEF Held
  <2>5. CASE pc[p] = "send"
    <3>1. u.fds[p]["padre0"] = Closed
      BY <2>1, <2>2, <2>5 DEF EndsOf, Fd
    <3>2. Held(u, p) \subseteq {u.fds[p]["padre1"], u.fds[p]["hijo1"]}
      BY <2>4, <3>1
    <3> QED
      BY <3>2, PairIsSmall
  <2>6. CASE pc[p] # "send"
    <3>1. u.fds[p]["padre1"] = Closed
      BY <2>1, <2>2, <2>3, <2>6 DEF EndsOf, Fd
    <3>2. Held(u, p) \subseteq {u.fds[p]["padre0"], u.fds[p]["hijo1"]}
      BY <2>4, <3>1
    <3> QED
      BY <3>2, PairIsSmall
  <2> QED
    BY <2>5, <2>6
<1> QED
  BY <1>1, <1>2 DEF OneReaderOneWriter

-----------------------------------------------------------------------------
(***************************************************************************)
(* The steps of one process that neither end it nor make another.          *)
(***************************************************************************)

LocalStep(p) ==
    /\ u' \in UnixType /\ u'.state = u.state /\ u'.parent = u.parent
    /\ pc[p] \notin {"ended", "wait"} /\ pc'[p] # "ended"
    /\ pid' = pid /\ n' = n /\ tty' = tty /\ failed' = failed
    /\ \A q \in Procs \ {p} :
          /\ u'.fds[q] = u.fds[q] /\ pc'[q] = pc[q] /\ recibido'[q] = recibido[q]
          /\ numero'[q] = numero[q] /\ stdout'[q] = stdout[q]

\* Where c[k] may go from where it is
Moves(m, c, k) ==
    /\ k = 1 => m > 1 /\ pc'[c[k]] \in {"send", "wait"}
    /\ k > 1 /\ k < m => pc'[c[k]] \in {"next", "pass", "wait"}
    /\ k > 1 /\ k = m => pc'[c[k]] \in {"born", "first", "pipe"}
    /\ k > 1 /\ pc'[c[k]] = "wait" => pc[c[k - 1]] = "wait"
    /\ pc'[c[k]] \in Writing => pc[c[k]] \in Writing
    /\ pc'[c[k]] \in Reading => pc[c[k]] \in Reading
    /\ pc'[c[k]] = "born" => pc[c[k]] = "born"

LEMMA LocalOthers ==
    ASSUME NEW m, NEW c, NEW K, Structure(m, c, K), NEW k \in 1..m, LocalStep(c[k]),
           NEW j \in 1..m, j # k
    PROVE  /\ u'.fds[c[j]] = u.fds[c[j]] /\ pc'[c[j]] = pc[c[j]] /\ recibido'[c[j]] = recibido[c[j]]
           /\ numero'[c[j]] = numero[c[j]] /\ stdout'[c[j]] = stdout[c[j]]
<1>1. c[j] \in Procs \ {c[k]}
  BY DEF Structure, Chain
<1> QED
  BY <1>1 DEF LocalStep

LEMMA LocalChain ==
    ASSUME NEW m, NEW c, NEW K, Structure(m, c, K), NEW k \in 1..m, LocalStep(c[k])
    PROVE  Chain(m, c)'
<1>1. Chain(m, c) /\ c[k] \in Procs
  BY DEF Structure, Chain
<1>2. \A p \in Procs \ {c[k]} : Nothing(p) => Nothing(p)'
  BY DEF LocalStep, Nothing
<1>3. \A p \in Procs : pc'[p] = "ended" => Nothing(p)'
  BY <1>1, <1>2 DEF Chain, LocalStep
<1>4. \A j \in 1..m : (pc'[c[j]] = "ended") <=> (pc[c[j]] = "ended")
  BY <1>1 DEF Chain, LocalStep
<1>5. \A j \in 1..m : u'.state[c[j]] = IF pc'[c[j]] = "ended" THEN "zombie" ELSE "running"
  BY <1>1, <1>4 DEF Chain, LocalStep
<1>6. \A p \in Procs : (\A j \in 1..m : c[j] # p) => u'.state[p] = "none" /\ pc'[p] = "ended"
  <2> SUFFICES ASSUME NEW p \in Procs, \A j \in 1..m : c[j] # p
               PROVE  u'.state[p] = "none" /\ pc'[p] = "ended"
    OBVIOUS
  <2>1. p # c[k] /\ u.state[p] = "none" /\ pc[p] = "ended"
    BY <1>1 DEF Chain
  <2> QED
    BY <2>1 DEF LocalStep
<1> QED
  BY <1>1, <1>3, <1>5, <1>6 DEF Chain, LocalStep

LEMMA LocalPlaces ==
    ASSUME NEW m, NEW c, NEW K, Structure(m, c, K), NEW k \in 1..m, LocalStep(c[k]), Moves(m, c, k)
    PROVE  Places(m, c)'
<1>1. m \in Nat /\ Places(m, c) /\ \A j \in 1..m : j # k => pc'[c[j]] = pc[c[j]]
  BY LocalOthers DEF Structure, Chain
<1>2. m > 1
  BY <1>1 DEF Moves
<1>3. pc'[c[1]] \in {"send", "wait"}
  BY <1>1, <1>2 DEF Moves, Places
<1>4. \A j \in 2..m - 1 : pc'[c[j]] \in {"next", "pass", "wait"}
  BY <1>1 DEF Moves, Places
<1>5. pc'[c[m]] \in {"born", "first", "pipe", "ended"}
  BY <1>1, <1>2 DEF Moves, Places
<1>6. ASSUME NEW j \in 2..m, pc'[c[j]] = "wait"
      PROVE  pc'[c[j - 1]] = "wait"
  <2>1. j \in 1..m /\ j - 1 \in 1..m /\ j - 1 # j
    BY <1>1
  <2>2. CASE j = k
    BY <1>1, <1>6, <2>1, <2>2 DEF Moves
  <2>3. CASE j # k
    <3>1. pc[c[j - 1]] = "wait"
      BY <1>1, <1>6, <2>1, <2>3 DEF Places
    <3>2. j - 1 # k
      BY <3>1 DEF LocalStep
    <3> QED
      BY <1>1, <2>1, <3>1, <3>2
  <2> QED
    BY <2>2, <2>3
<1> QED
  BY <1>2, <1>3, <1>4, <1>5, <1>6 DEF Places

LEMMA LocalEnds ==
    ASSUME NEW m, NEW c, NEW K, Structure(m, c, K), NEW k \in 1..m, LocalStep(c[k]),
           EndsOf(c, K, k)'
    PROVE  HasEnds(m, c, K)'
<1> SUFFICES ASSUME NEW j \in 1..m
             PROVE  EndsOf(c, K, j)'
  BY DEF HasEnds
<1>1. CASE j # k
  BY <1>1, LocalOthers, EndsAre DEF EndsOf
<1> QED
  BY <1>1

LEMMA LocalPipes ==
    ASSUME NEW m, NEW c, NEW K, Structure(m, c, K), NEW k \in 1..m, LocalStep(c[k]), Moves(m, c, k)
    PROVE  HasPipes(m, c, K)'
<1>1. m \in Nat /\ HasPipes(m, c, K) /\ \A j \in 1..m : j # k => pc'[c[j]] = pc[c[j]]
  <2>1. m \in Nat /\ HasPipes(m, c, K)
    BY DEF Structure, Chain
  <2>2. \A j \in 1..m : j # k => pc'[c[j]] = pc[c[j]]
    BY LocalOthers
  <2> QED
    BY <2>1, <2>2
<1>2. ASSUME NEW j \in 1..m
      PROVE  /\ pc'[c[j]] \in Writing => pc[c[j]] \in Writing
             /\ pc'[c[j]] \in Reading => pc[c[j]] \in Reading
             /\ pc'[c[j]] = "born" => pc[c[j]] = "born"
  BY <1>1 DEF Moves
<1>3. \A j \in 2..m : j - 1 \in 1..m /\ j \in 1..m /\ m \in 1..m
  BY <1>1
<1>4. \A j \in 2..m : Used(m, c, j)' => Used(m, c, j)
  BY <1>2, <1>3 DEF Used
<1> QED
  BY <1>1, <1>4 DEF HasPipes

LEMMA LocalStructure ==
    ASSUME NEW m, NEW c, NEW K, Structure(m, c, K), NEW k \in 1..m, LocalStep(c[k]),
           Moves(m, c, k), EndsOf(c, K, k)'
    PROVE  Structure(m, c, K)'
  BY LocalChain, LocalPlaces, LocalEnds, LocalPipes DEF Structure

LEMMA GotoEs ==
    ASSUME TypeOK, NEW p \in Procs, NEW l, Goto(p, l)
    PROVE  pc'[p] = l /\ \A q \in Procs \ {p} : pc'[q] = pc[q]
  BY DEF Goto, TypeOK

\* What the numbers see of a step that moves none
Quiet == UNCHANGED <<recibido, numero, i, stdout, output>>

LEMMA MainSendEs ==
    ASSUME TypeOK, NEW m, NEW c, NEW K, Structure(m, c, K), MainSend
    PROVE  /\ m > 1 /\ pc[c[1]] = "send" /\ LocalStep(c[1]) /\ Structure(m, c, K)'
           /\ i <= n /\ i' = i + 1 /\ pc' = pc
           /\ u'.pipe[K[2]] = Append(u.pipe[K[2]], i)
           /\ \A j \in Pipes \ {K[2]} : u'.pipe[j] = u.pipe[j]
           /\ UNCHANGED <<recibido, numero, stdout, output>>
<1>1. m \in Nat /\ Running(u, Main) /\ pc[Main] = "send" /\ Main \in Procs
  BY MainAssumption DEF MainSend, At, Structure, Chain
<1>2. m > 1 /\ c[1] = Main
  BY <1>1, Where DEF Structure, Chain
<1>3. 1 \in 1..m /\ 2 \in 2..m /\ K[2] \in Pipes
  BY <1>1, <1>2 DEF Structure, HasPipes
<1>4. u.fds[Main]["padre1"] = End(K[2], "w")
  BY <1>1, <1>2, <1>3, Holds
<1>5. u \in UnixType /\ i \in Nat
  BY DEF TypeOK
<1>6. /\ u' \in UnixType /\ u'.state = u.state /\ u'.parent = u.parent /\ u'.fds = u.fds
      /\ u'.pipe[K[2]] = Append(u.pipe[K[2]], i)
      /\ \A j \in Pipes \ {K[2]} : u'.pipe[j] = u.pipe[j]
  <2>1. u' = Write(u, Main, "padre1", i) /\ "padre1" \in Fds
    BY FdsAssumption DEF MainSend
  <2>2. Source(u, Main, "padre1") = K[2] /\ IsPipe(u, Main, "padre1")
    BY <1>3, <1>4, EndEs DEF Source, IsPipe
  <2>3. u' = [u EXCEPT !.pipe[K[2]] = Append(@, i)]
    BY <2>1, <2>2 DEF Write
  <2>4. PICK s : s = Append(u.pipe[K[2]], i)
    OBVIOUS
  <2>5. s \in Seq(Nat)
    BY <1>3, <1>5, <2>4, UnixFields
  <2> QED
    BY <1>3, <1>5, <2>3, <2>4, <2>5 DEF UnixType
<1>7. LocalStep(c[1])
  BY <1>1, <1>2, <1>6 DEF MainSend, LocalStep
<1>8. Moves(m, c, 1)
  BY <1>1, <1>2 DEF MainSend, Moves
<1>9. EndsOf(c, K, 1)'
  BY <1>3, <1>6, EndsAre DEF MainSend, EndsOf
<1> QED
  BY <1>1, <1>2, <1>3, <1>6, <1>7, <1>8, <1>9, LocalStructure DEF MainSend

LEMMA MainDoneEs ==
    ASSUME TypeOK, NEW m, NEW c, NEW K, Structure(m, c, K), MainDone
    PROVE  /\ m > 1 /\ pc[c[1]] = "send" /\ LocalStep(c[1]) /\ Structure(m, c, K)'
           /\ i > n /\ pc'[c[1]] = "wait"
           /\ u'.pipe = u.pipe /\ Quiet
<1>1. m \in Nat /\ Running(u, Main) /\ pc[Main] = "send" /\ Main \in Procs
  BY MainAssumption DEF MainDone, At, Structure, Chain
<1>2. m > 1 /\ c[1] = Main
  BY <1>1, Where DEF Structure, Chain
<1>3. 1 \in 1..m /\ EndsOf(c, K, 1)
  BY <1>1, <1>2, EndsAre
<1>4. u \in UnixType
  BY DEF TypeOK
<1>5. /\ u' \in UnixType /\ u'.state = u.state /\ u'.parent = u.parent /\ u'.pipe = u.pipe
      /\ \A q \in Procs \ {Main} : u'.fds[q] = u.fds[q]
      /\ \A d \in Fds : u'.fds[Main][d] = IF d \in {"padre1"} THEN Closed ELSE u.fds[Main][d]
  BY <1>1, <1>4, CloseEs DEF MainDone
<1>6. pc'[Main] = "wait" /\ \A q \in Procs \ {Main} : pc'[q] = pc[q]
  BY <1>1, GotoEs DEF MainDone
<1>7. LocalStep(c[1])
  BY <1>1, <1>2, <1>5, <1>6 DEF MainDone, Same, progvars, LocalStep
<1>8. Moves(m, c, 1)
  BY <1>1, <1>2, <1>6 DEF Moves, Writing, Reading
<1>9. EndsOf(c, K, 1)'
  BY <1>1, <1>2, <1>3, <1>5, <1>6, FdsAssumption DEF EndsOf, Fd
<1> QED
  BY <1>1, <1>2, <1>3, <1>5, <1>6, <1>7, <1>8, <1>9, LocalStructure
     DEF MainDone, Same, progvars, Quiet

LEMMA BornEs ==
    ASSUME TypeOK, NEW m, NEW c, NEW K, Structure(m, c, K), NEW p \in Procs, Born(p)
    PROVE  /\ m > 1 /\ p = c[m] /\ pc[p] = "born" /\ LocalStep(c[m]) /\ Structure(m, c, K)'
           /\ pc'[p] = "first"
           /\ u'.pipe = u.pipe /\ Quiet
<1>1. m \in Nat /\ Running(u, p) /\ pc[p] = "born"
  BY DEF Born, At, Structure, Chain
<1>2. m > 1 /\ p = c[m] /\ m \in 1..m
  BY <1>1, Where
<1>3. EndsOf(c, K, m) /\ Fds = {"padre0", "padre1", "hijo0", "hijo1"}
  BY <1>2, EndsAre, FdsAssumption
<1>4. u \in UnixType
  BY DEF TypeOK
<1> DEFINE new == IF u.fds[p]["hijo0"] = Closed THEN "padre0" ELSE "hijo0"
<1>5. new \in Fds /\ u.fds[p][new] = End(K[m], "r")
  <2>1. CASE m = 2
    BY <1>1, <1>2, <1>3, <2>1 DEF EndsOf, Fd
  <2>2. CASE m > 2
    <3>1. End(K[m], "r") # Closed
      BY EndEs
    <3> QED
      BY <1>1, <1>2, <1>3, <2>2, <3>1 DEF EndsOf, Fd
  <2> QED
    BY <1>1, <1>2, <2>1, <2>2
<1> HIDE DEF new
<1>6. u' = [u EXCEPT !.fds[p] = [x \in Fds |-> IF x = "padre0" THEN u.fds[p][new] ELSE Closed]]
  BY DEF Born, new
<1>7. [x \in Fds |-> IF x = "padre0" THEN u.fds[p][new] ELSE Closed] \in [Fds -> Ends \cup {Closed, Plain}]
  BY <1>4, <1>5, UnixFields
<1>8. /\ u' \in UnixType /\ u'.state = u.state /\ u'.parent = u.parent /\ u'.pipe = u.pipe
      /\ \A q \in Procs \ {p} : u'.fds[q] = u.fds[q]
      /\ \A d \in Fds : u'.fds[p][d] = IF d = "padre0" THEN End(K[m], "r") ELSE Closed
  BY <1>4, <1>5, <1>6, <1>7 DEF UnixType
<1>9. pc'[p] = "first" /\ \A q \in Procs \ {p} : pc'[q] = pc[q]
  BY GotoEs DEF Born
<1>10. LocalStep(c[m])
  BY <1>1, <1>2, <1>8, <1>9 DEF Born, Same, progvars, LocalStep
<1>11. Moves(m, c, m)
  BY <1>1, <1>2, <1>9 DEF Moves, Writing, Reading
<1>12. EndsOf(c, K, m)'
  BY <1>1, <1>2, <1>3, <1>8, <1>9 DEF EndsOf, Fd
<1> QED
  BY <1>1, <1>2, <1>8, <1>9, <1>10, <1>11, <1>12, LocalStructure DEF Born, Same, progvars, Quiet

LEMMA FirstEs ==
    ASSUME TypeOK, NEW m, NEW c, NEW K, Structure(m, c, K), NEW p \in Procs, First(p)
    PROVE  /\ m > 1 /\ p = c[m] /\ pc[p] = "first" /\ LocalStep(c[m]) /\ Structure(m, c, K)'
           /\ pc'[p] = "pipe" /\ u' \in UnixType
           /\ \A q \in Procs \ {p} : pc'[q] = pc[q] /\ recibido'[q] = recibido[q]
           /\ u.pipe[K[m]] \in Seq(Nat) /\ u.pipe[K[m]] # <<>>
           /\ u'.pipe[K[m]] = Tail(u.pipe[K[m]])
           /\ \A j \in Pipes \ {K[m]} : u'.pipe[j] = u.pipe[j]
           /\ LET v == Head(u.pipe[K[m]])
              IN  /\ recibido' = [recibido EXCEPT ![p] = v] /\ recibido'[p] = v
                  /\ tty => output' = Append(output, v) /\ stdout' = stdout
                  /\ ~tty => output' = output /\ stdout' = [stdout EXCEPT ![p] = Append(stdout[p], v)]
           /\ UNCHANGED <<n, tty, i, numero, pid, failed>>
<1>1. m \in Nat /\ Running(u, p) /\ pc[p] = "first"
  BY DEF First, At, Structure, Chain
<1>2. m > 1 /\ p = c[m] /\ m \in 1..m /\ m \in 2..m
  BY <1>1, Where
<1>3. EndsOf(c, K, m) /\ K[m] \in Pipes /\ "padre0" \in Fds
  BY <1>2, EndsAre, FdsAssumption DEF Structure, HasPipes
<1>4. /\ u \in UnixType /\ recibido \in [Procs -> 0..MaxN]
      /\ stdout \in [Procs -> Seq(2..MaxN)]
  BY DEF TypeOK
<1>5. u.fds[p]["padre0"] = End(K[m], "r")
  BY <1>1, <1>2, Holds DEF Reading
<1>6. /\ u' \in UnixType /\ u'.state = u.state /\ u'.parent = u.parent /\ u'.fds = u.fds
      /\ u'.pipe[K[m]] = Tail(u.pipe[K[m]])
      /\ \A j \in Pipes \ {K[m]} : u'.pipe[j] = u.pipe[j]
      /\ Front(u, p, "padre0") = Head(u.pipe[K[m]])
      /\ u.pipe[K[m]] # <<>>
  BY <1>3, <1>4, <1>5, ReadEs DEF First
<1>7. pc'[p] = "pipe" /\ \A q \in Procs \ {p} : pc'[q] = pc[q]
  BY GotoEs DEF First
<1>8. LET v == Head(u.pipe[K[m]])
      IN  /\ recibido' = [recibido EXCEPT ![p] = v] /\ recibido'[p] = v
          /\ \A q \in Procs \ {p} : recibido'[q] = recibido[q] /\ stdout'[q] = stdout[q]
          /\ tty => output' = Append(output, v) /\ stdout' = stdout
          /\ ~tty => output' = output /\ stdout' = [stdout EXCEPT ![p] = Append(stdout[p], v)]
  BY <1>4, <1>6 DEF First
<1>9. LocalStep(c[m])
  BY <1>1, <1>2, <1>6, <1>7, <1>8 DEF First, LocalStep
<1>10. Moves(m, c, m)
  BY <1>1, <1>2, <1>7 DEF Moves, Writing, Reading
<1>11. EndsOf(c, K, m)'
  BY <1>1, <1>2, <1>3, <1>6, <1>7 DEF EndsOf, Fd
<1>12. Structure(m, c, K)'
  BY <1>2, <1>9, <1>10, <1>11, LocalStructure
<1>13. u.pipe[K[m]] \in Seq(Nat)
  BY <1>3, <1>4, UnixFields
<1> QED
  BY <1>1, <1>2, <1>6, <1>7, <1>8, <1>9, <1>12, <1>13 DEF First

LEMMA ReadNextEs ==
    ASSUME TypeOK, NEW m, NEW c, NEW K, Structure(m, c, K), NEW p \in Procs, ReadNext(p)
    PROVE  \E k \in 2..m - 1 :
             /\ p = c[k] /\ pc[p] = "next" /\ LocalStep(c[k]) /\ Structure(m, c, K)'
             /\ u.pipe[K[k]] \in Seq(Nat) /\ u.pipe[K[k]] # <<>>
             /\ u'.pipe[K[k]] = Tail(u.pipe[K[k]])
             /\ \A j \in Pipes \ {K[k]} : u'.pipe[j] = u.pipe[j]
             /\ LET v == Head(u.pipe[K[k]])
                IN  \/ v % recibido[p] # 0 /\ pc'[p] = "pass" /\ numero' = [numero EXCEPT ![p] = v] /\ numero'[p] = v
                    \/ v % recibido[p] = 0 /\ pc' = pc /\ numero' = numero
             /\ UNCHANGED <<recibido, i, stdout, output>>
<1>1. m \in Nat /\ Running(u, p) /\ pc[p] = "next"
  BY DEF ReadNext, At, Structure, Chain
<1>2. PICK k \in 2..m - 1 : p = c[k]
  <2>1. \E k \in 1..m : p = c[k] /\ k \in 2..m - 1
    BY <1>1, Where
  <2> QED
    BY <2>1
<1>3. k \in 1..m /\ k \in 2..m
  BY <1>1
<1>4. EndsOf(c, K, k) /\ K[k] \in Pipes /\ "padre0" \in Fds
  BY <1>3, EndsAre, FdsAssumption DEF Structure, HasPipes
<1>5. u \in UnixType /\ numero \in [Procs -> 0..MaxN]
  BY DEF TypeOK
<1>6. u.fds[p]["padre0"] = End(K[k], "r")
  BY <1>1, <1>2, <1>3, Holds DEF Reading
<1>7. /\ u' \in UnixType /\ u'.state = u.state /\ u'.parent = u.parent /\ u'.fds = u.fds
      /\ u'.pipe[K[k]] = Tail(u.pipe[K[k]])
      /\ \A j \in Pipes \ {K[k]} : u'.pipe[j] = u.pipe[j]
      /\ Front(u, p, "padre0") = Head(u.pipe[K[k]])
      /\ u.pipe[K[k]] # <<>>
  BY <1>4, <1>5, <1>6, ReadEs DEF ReadNext
<1>8. LET v == Head(u.pipe[K[k]])
      IN  \/ v % recibido[p] # 0 /\ Goto(p, "pass") /\ numero' = [numero EXCEPT ![p] = v]
          \/ v % recibido[p] = 0 /\ pc' = pc /\ numero' = numero
  BY <1>7 DEF ReadNext
<1>9. LET v == Head(u.pipe[K[k]])
      IN  \/ v % recibido[p] # 0 /\ pc'[p] = "pass" /\ numero' = [numero EXCEPT ![p] = v] /\ numero'[p] = v
          \/ v % recibido[p] = 0 /\ pc' = pc /\ numero' = numero
  BY <1>5, <1>8, GotoEs
<1>10. /\ pc'[p] \in {"next", "pass"}
       /\ \A q \in Procs \ {p} : pc'[q] = pc[q] /\ numero'[q] = numero[q]
  BY <1>1, <1>5, <1>8, GotoEs
<1>11. LocalStep(c[k])
  BY <1>1, <1>2, <1>7, <1>10 DEF ReadNext, LocalStep
<1>12. Moves(m, c, k)
  BY <1>1, <1>2, <1>10 DEF Moves, Writing, Reading
<1>13. EndsOf(c, K, k)'
  BY <1>1, <1>2, <1>4, <1>7, <1>10 DEF EndsOf, Fd
<1>14. Structure(m, c, K)'
  BY <1>3, <1>11, <1>12, <1>13, LocalStructure
<1>15. u.pipe[K[k]] \in Seq(Nat)
  BY <1>4, <1>5, UnixFields
<1>16. UNCHANGED <<recibido, i, stdout, output>>
  BY DEF ReadNext
<1> QED
  BY <1>1, <1>2, <1>7, <1>9, <1>11, <1>14, <1>15, <1>16

LEMMA PassEs ==
    ASSUME TypeOK, NEW m, NEW c, NEW K, Structure(m, c, K), NEW p \in Procs, Pass(p)
    PROVE  \E k \in 2..m - 1 :
             /\ p = c[k] /\ pc[p] = "pass" /\ LocalStep(c[k]) /\ Structure(m, c, K)'
             /\ pc'[p] = "next"
             /\ u.pipe[K[k + 1]] \in Seq(Nat)
             /\ u'.pipe[K[k + 1]] = Append(u.pipe[K[k + 1]], numero[p])
             /\ \A j \in Pipes \ {K[k + 1]} : u'.pipe[j] = u.pipe[j]
             /\ UNCHANGED <<recibido, i, stdout, output>>
<1>1. m \in Nat /\ Running(u, p) /\ pc[p] = "pass"
  BY DEF Pass, At, Structure, Chain
<1>2. PICK k \in 2..m - 1 : p = c[k]
  <2>1. \E k \in 1..m : p = c[k] /\ k \in 2..m - 1
    BY <1>1, Where
  <2> QED
    BY <2>1
<1>3. k \in 1..m /\ k + 1 \in 2..m /\ (k + 1) - 1 = k
  BY <1>1
<1>4. EndsOf(c, K, k) /\ K[k + 1] \in Pipes /\ "hijo1" \in Fds
  BY <1>3, EndsAre, FdsAssumption DEF Structure, HasPipes
<1>5. u \in UnixType /\ numero \in [Procs -> 0..MaxN]
  BY DEF TypeOK
<1>6. u.fds[p]["hijo1"] = End(K[k + 1], "w") /\ numero[p] \in Nat
  BY <1>1, <1>2, <1>4, <1>5 DEF EndsOf, Fd
<1>7. /\ u' \in UnixType /\ u'.state = u.state /\ u'.parent = u.parent /\ u'.fds = u.fds
      /\ u'.pipe[K[k + 1]] = Append(u.pipe[K[k + 1]], numero[p])
      /\ \A j \in Pipes \ {K[k + 1]} : u'.pipe[j] = u.pipe[j]
  <2>1. u' = Write(u, p, "hijo1", numero[p])
    BY DEF Pass
  <2>2. u.fds[p]["hijo1"] = End(K[k + 1], "w") /\ K[k + 1] \in Pipes
    BY <1>4, <1>6
  <2>3. Source(u, p, "hijo1") = K[k + 1] /\ IsPipe(u, p, "hijo1")
    BY <2>2, EndEs DEF Source, IsPipe
  <2>4. u' = [u EXCEPT !.pipe[K[k + 1]] = Append(@, numero[p])]
    BY <2>1, <2>3 DEF Write
  <2>5. PICK s : s = Append(u.pipe[K[k + 1]], numero[p])
    OBVIOUS
  <2>6. s \in Seq(Nat)
    BY <1>5, <1>6, <2>2, <2>5, UnixFields
  <2> QED
    BY <1>5, <2>2, <2>4, <2>5, <2>6 DEF UnixType
<1>8. /\ pc'[p] = "next"
      /\ \A q \in Procs \ {p} : pc'[q] = pc[q] /\ numero'[q] = numero[q]
  BY <1>5, GotoEs DEF Pass
<1>9. LocalStep(c[k])
  BY <1>1, <1>2, <1>7, <1>8 DEF Pass, LocalStep
<1>10. Moves(m, c, k)
  BY <1>1, <1>2, <1>8 DEF Moves, Writing, Reading
<1>11. EndsOf(c, K, k)'
  BY <1>1, <1>2, <1>4, <1>7, <1>8 DEF EndsOf, Fd
<1>12. Structure(m, c, K)'
  BY <1>3, <1>9, <1>10, <1>11, LocalStructure
<1>13. u.pipe[K[k + 1]] \in Seq(Nat)
  BY <1>4, <1>5, UnixFields
<1>14. UNCHANGED <<recibido, i, stdout, output>>
  BY DEF Pass
<1> QED
  BY <1>1, <1>2, <1>7, <1>8, <1>9, <1>12, <1>13, <1>14

LEMMA NextEofEs ==
    ASSUME TypeOK, NEW m, NEW c, NEW K, Structure(m, c, K), NEW p \in Procs, NextEof(p)
    PROVE  \E k \in 2..m - 1 :
             /\ p = c[k] /\ pc[p] = "next" /\ LocalStep(c[k]) /\ Structure(m, c, K)'
             /\ pc'[p] = "wait" /\ pc[c[k - 1]] = "wait"
             /\ u.pipe[K[k]] = <<>> /\ u'.pipe = u.pipe /\ Quiet
<1>1. m \in Nat /\ Running(u, p) /\ pc[p] = "next"
  BY DEF NextEof, At, Structure, Chain
<1>2. PICK k \in 2..m - 1 : p = c[k]
  <2>1. \E k \in 1..m : p = c[k] /\ k \in 2..m - 1
    BY <1>1, Where
  <2> QED
    BY <2>1
<1>3. k \in 1..m /\ k \in 2..m
  BY <1>1
<1>4. EndsOf(c, K, k) /\ u \in UnixType
  BY <1>3, EndsAre DEF TypeOK
<1>5. pc[c[k - 1]] = "wait" /\ u.pipe[K[k]] = <<>>
  BY <1>1, <1>2, <1>3, EofMeansWaits DEF NextEof
<1>6. /\ u' \in UnixType /\ u'.state = u.state /\ u'.parent = u.parent /\ u'.pipe = u.pipe
      /\ \A q \in Procs \ {p} : u'.fds[q] = u.fds[q]
      /\ \A d \in Fds : u'.fds[p][d] = IF d \in {"hijo1", "padre0"} THEN Closed ELSE u.fds[p][d]
  BY <1>4, CloseEs DEF NextEof
<1>7. pc'[p] = "wait" /\ \A q \in Procs \ {p} : pc'[q] = pc[q]
  BY GotoEs DEF NextEof
<1>8. LocalStep(c[k])
  BY <1>1, <1>2, <1>6, <1>7 DEF NextEof, Same, progvars, LocalStep
<1>9. Moves(m, c, k)
  BY <1>1, <1>2, <1>5, <1>7 DEF Moves, Writing, Reading
<1>10. EndsOf(c, K, k)'
  BY <1>1, <1>2, <1>4, <1>6, <1>7, FdsAssumption DEF EndsOf, Fd
<1>11. Structure(m, c, K)'
  BY <1>3, <1>8, <1>9, <1>10, LocalStructure
<1>12. Quiet
  BY DEF NextEof, Same, progvars, Quiet
<1> QED
  BY <1>1, <1>2, <1>5, <1>6, <1>7, <1>8, <1>11, <1>12

-----------------------------------------------------------------------------
(***************************************************************************)
(* A process makes the next one.                                           *)
(***************************************************************************)

Extends(m, c, d, x) == d[m + 1] = x /\ \A k \in 1..m : d[k] = c[k]

\* What becomes of p and of b, made by p with the pipe k
ForkStep(p, b, k, rd, wr, l) ==
    /\ b \in Procs \ {p} /\ u.state[b] = "none" /\ k \in Pipes /\ Unheld(u, k)
    /\ u' \in UnixType
    /\ u'.pipe[k] = <<>> /\ \A j \in Pipes \ {k} : u'.pipe[j] = u.pipe[j]
    /\ u'.state[b] = "running" /\ u'.parent[b] = p
    /\ u'.fds[b][rd] = End(k, "r") /\ u'.fds[b][wr] = End(k, "w")
    /\ \A d \in Fds \ {rd, wr} : u'.fds[b][d] = u.fds[p][d]
    /\ u'.fds[p][rd] = Closed /\ u'.fds[p][wr] = End(k, "w")
    /\ \A d \in Fds \ {rd, wr} : u'.fds[p][d] = u.fds[p][d]
    /\ \A q \in Procs \ {b} : u'.state[q] = u.state[q] /\ u'.parent[q] = u.parent[q]
    /\ \A q \in Procs \ {b, p} : u'.fds[q] = u.fds[q] /\ pc'[q] = pc[q]
    /\ pc'[p] = l /\ pc'[b] = "born"
    /\ pid'[p] = b /\ \A q \in Procs \ {p} : pid'[q] = pid[q]
    /\ stdout'[b] = stdout[p] /\ \A q \in Procs \ {b} : stdout'[q] = stdout[q]
    /\ UNCHANGED <<n, tty, i, recibido, numero, output, failed>>

LEMMA ForkedEs ==
    ASSUME TypeOK, NEW p \in Procs, Running(u, p), CanPipe(u), CanFork(u),
           NEW rd \in Fds, NEW wr \in Fds, rd # wr, NEW l, Forked(p, Pipe(u, p, rd, wr), rd, l)
    PROVE  ForkStep(p, FreeProc(u), FreePipe(u), rd, wr, l)
<1> DEFINE b == FreeProc(u)
           k == FreePipe(u)
           y == Branch(u, p, rd, wr, {rd})
<1>1. u \in UnixType
  BY DEF TypeOK
<1>2. Branched(u, p, rd, wr, b, k, y) /\ FreeProc(Pipe(u, p, rd, wr)) = b
  BY <1>1, BranchEs DEF Running
<1>3. /\ u' = y
      /\ pc' = [pc EXCEPT ![p] = l, ![b] = "born"]
      /\ pid' = [pid EXCEPT ![p] = b]
      /\ stdout' = [stdout EXCEPT ![b] = stdout[p]]
      /\ UNCHANGED <<n, tty, i, recibido, numero, output, failed>>
  BY <1>2 DEF Forked, Branch
<1> HIDE DEF b, k, y
<1>4. /\ pc'[p] = l /\ pc'[b] = "born" /\ \A q \in Procs \ {b, p} : pc'[q] = pc[q]
      /\ pid'[p] = b /\ \A q \in Procs \ {p} : pid'[q] = pid[q]
      /\ stdout'[b] = stdout[p] /\ \A q \in Procs \ {b} : stdout'[q] = stdout[q]
  BY <1>2, <1>3 DEF TypeOK, Branched
<1>5. ForkStep(p, b, k, rd, wr, l)
  BY <1>2, <1>3, <1>4 DEF ForkStep, Branched
<1> QED
  BY <1>5 DEF b, k

\* The last one makes the next.
Grows(m, c, K, b, k) ==
    /\ m \in Nat \ {0}
    /\ \/ m = 1 /\ pc[c[m]] = "main" /\ ForkStep(c[m], b, k, "padre0", "padre1", "send")
       \/ m > 1 /\ pc[c[m]] = "pipe" /\ ForkStep(c[m], b, k, "hijo0", "hijo1", "next")

\* What the proofs need of it, but for the descriptors
LEMMA GrowsEs ==
    ASSUME NEW m, NEW c, NEW K, Structure(m, c, K), NEW b, NEW k, Grows(m, c, K, b, k),
           NEW d, Extends(m, c, d, b), NEW E, Extends(m, K, E, k)
    PROVE  /\ m \in Nat \ {0} /\ b \in Procs /\ k \in Pipes /\ Unheld(u, k)
           /\ c[m] \in Procs /\ c[m] # b /\ u.state[b] = "none" /\ pc[b] = "ended" /\ Nothing(b)
           /\ d[m + 1] = b /\ E[m + 1] = k
           /\ \A j \in 1..m : d[j] = c[j] /\ E[j] = K[j] /\ c[j] # b /\ c[j] \in Procs
           /\ \A j \in 1..m - 1 : c[j] # c[m] /\ pc'[c[j]] = pc[c[j]]
           /\ pc'[c[m]] = IF m = 1 THEN "send" ELSE "next"
           /\ pc[c[m]] = IF m = 1 THEN "main" ELSE "pipe"
           /\ pc'[b] = "born"
<1>1. m \in Nat \ {0} /\ \E rd, wr, l : ForkStep(c[m], b, k, rd, wr, l)
  BY DEF Grows
<1>2. b \in Procs \ {c[m]} /\ u.state[b] = "none" /\ k \in Pipes /\ Unheld(u, k) /\ pc'[b] = "born"
  BY <1>1 DEF ForkStep
<1>3. \A j \in 1..m : c[j] # b /\ c[j] \in Procs
  BY <1>2 DEF Structure, Chain
<1>4. pc[b] = "ended" /\ Nothing(b)
  BY <1>2, <1>3 DEF Structure, Chain
<1>5. \A j \in 1..m - 1 : c[j] # c[m]
  BY <1>1 DEF Structure, Chain
<1>6. \A j \in 1..m - 1 : pc'[c[j]] = pc[c[j]]
  BY <1>1, <1>3, <1>5 DEF ForkStep
<1>7. /\ pc'[c[m]] = IF m = 1 THEN "send" ELSE "next"
      /\ pc[c[m]] = IF m = 1 THEN "main" ELSE "pipe"
  BY DEF Grows, ForkStep
<1> QED
  BY <1>1, <1>2, <1>3, <1>4, <1>5, <1>6, <1>7 DEF Extends

LEMMA GrowsChain ==
    ASSUME NEW m, NEW c, NEW K, Structure(m, c, K), NEW b, NEW k, Grows(m, c, K, b, k),
           NEW d, Extends(m, c, d, b), NEW E, Extends(m, K, E, k)
    PROVE  Chain(m + 1, d)'
<1>1. /\ m \in Nat \ {0} /\ b \in Procs /\ c[m] \in Procs /\ c[m] # b /\ d[m + 1] = b
      /\ u.state[b] = "none" /\ pc[b] = "ended" /\ Nothing(b) /\ pc'[b] = "born"
      /\ \A j \in 1..m : d[j] = c[j] /\ c[j] # b /\ c[j] \in Procs
      /\ \A j \in 1..m - 1 : c[j] # c[m] /\ pc'[c[j]] = pc[c[j]]
      /\ pc'[c[m]] # "ended" /\ pc[c[m]] # "ended"
  BY GrowsEs
<1>2. /\ u'.state[b] = "running" /\ u'.parent[b] = c[m] /\ pid'[c[m]] = b
      /\ \A q \in Procs \ {b} : u'.state[q] = u.state[q] /\ u'.parent[q] = u.parent[q]
      /\ \A q \in Procs \ {c[m]} : pid'[q] = pid[q]
      /\ \A q \in Procs \ {b, c[m]} :
            /\ u'.fds[q] = u.fds[q] /\ stdout'[q] = stdout[q] /\ recibido'[q] = recibido[q]
            /\ numero'[q] = numero[q] /\ pc'[q] = pc[q]
  BY DEF Grows, ForkStep
<1>3. Chain(m, c)
  BY DEF Structure
<1>4. \A j \in 1..m + 1 : d[j] \in Procs
  BY <1>1
<1>5. \A j, l \in 1..m + 1 : d[j] = d[l] => j = l
  <2> SUFFICES ASSUME NEW j \in 1..m + 1, NEW l \in 1..m + 1, d[j] = d[l]
               PROVE  j = l
    OBVIOUS
  <2>1. CASE j \in 1..m /\ l \in 1..m
    BY <1>1, <1>3, <2>1 DEF Chain
  <2> QED
    BY <1>1, <2>1
<1>6. d[1] = Main /\ u'.parent[Main] = InitProc
  BY <1>1, <1>2, <1>3 DEF Chain
<1>7. ASSUME NEW j \in 2..m + 1
      PROVE  u'.parent[d[j]] = d[j - 1] /\ pid'[d[j - 1]] = d[j]
  <2>1. CASE j = m + 1
    BY <1>1, <1>2, <2>1
  <2>2. CASE j \in 2..m
    <3>1. j - 1 \in 1..m - 1 /\ j \in 1..m
      BY <1>1, <2>2
    <3> QED
      BY <1>1, <1>2, <1>3, <2>2, <3>1 DEF Chain
  <2> QED
    BY <1>1, <2>1, <2>2
<1>8. ASSUME NEW j \in 1..m + 1
      PROVE  u'.state[d[j]] = IF pc'[d[j]] = "ended" THEN "zombie" ELSE "running"
  <2>1. CASE j = m + 1
    BY <1>1, <1>2, <2>1
  <2>2. CASE j = m
    BY <1>1, <1>2, <1>3, <2>2 DEF Chain
  <2>3. CASE j \in 1..m - 1
    BY <1>1, <1>2, <1>3, <2>3 DEF Chain
  <2> QED
    BY <1>1, <2>1, <2>2, <2>3
<1>9. ASSUME NEW q \in Procs, \A j \in 1..m + 1 : d[j] # q
      PROVE  u'.state[q] = "none" /\ pc'[q] = "ended"
  <2>1. q # b /\ \A j \in 1..m : c[j] # q
    BY <1>1, <1>9
  <2> QED
    BY <1>1, <1>2, <1>3, <2>1 DEF Chain
<1>10. ASSUME NEW q \in Procs, pc'[q] = "ended"
       PROVE  Nothing(q)'
  <2>1. q # b /\ q # c[m]
    BY <1>1, <1>10
  <2>2. Nothing(q)
    BY <1>2, <1>3, <1>10, <2>1 DEF Chain
  <2> QED
    BY <1>2, <2>1, <2>2 DEF Nothing
<1> QED
  BY <1>1, <1>4, <1>5, <1>6, <1>7, <1>8, <1>9, <1>10 DEF Chain

LEMMA GrowsPlaces ==
    ASSUME NEW m, NEW c, NEW K, Structure(m, c, K), NEW b, NEW k, Grows(m, c, K, b, k),
           NEW d, Extends(m, c, d, b), NEW E, Extends(m, K, E, k)
    PROVE  Places(m + 1, d)'
<1>1. /\ m \in Nat \ {0} /\ d[m + 1] = b /\ pc'[b] = "born"
      /\ \A j \in 1..m : d[j] = c[j]
      /\ \A j \in 1..m - 1 : pc'[c[j]] = pc[c[j]]
      /\ pc'[c[m]] = IF m = 1 THEN "send" ELSE "next"
  BY GrowsEs
<1>2. Places(m, c)
  BY DEF Structure
<1>3. pc'[d[1]] \in {"send", "wait"}
  BY <1>1, <1>2 DEF Places
<1>4. \A j \in 2..m : pc'[d[j]] \in {"next", "pass", "wait"}
  BY <1>1, <1>2 DEF Places
<1>5. ASSUME NEW j \in 2..m + 1, pc'[d[j]] = "wait"
      PROVE  pc'[d[j - 1]] = "wait"
  <2>1. j # m + 1 /\ j # m
    BY <1>1, <1>5
  <2>2. j \in 2..m - 1 /\ j - 1 \in 1..m - 1 /\ j \in 2..m
    BY <1>1, <2>1
  <2> QED
    BY <1>1, <1>2, <1>5, <2>2 DEF Places
<1> QED
  BY <1>1, <1>3, <1>4, <1>5 DEF Places

LEMMA GrowsEnds ==
    ASSUME NEW m, NEW c, NEW K, Structure(m, c, K), NEW b, NEW k, Grows(m, c, K, b, k),
           NEW d, Extends(m, c, d, b), NEW E, Extends(m, K, E, k)
    PROVE  HasEnds(m + 1, d, E)'
<1>1. /\ m \in Nat \ {0} /\ b \in Procs /\ d[m + 1] = b /\ E[m + 1] = k /\ pc'[b] = "born"
      /\ \A j \in 1..m : d[j] = c[j] /\ E[j] = K[j] /\ c[j] # b /\ c[j] \in Procs
      /\ \A j \in 1..m - 1 : c[j] # c[m] /\ pc'[c[j]] = pc[c[j]]
      /\ pc'[c[m]] = IF m = 1 THEN "send" ELSE "next"
      /\ pc[c[m]] = IF m = 1 THEN "main" ELSE "pipe"
  BY GrowsEs
<1>2. \A q \in Procs \ {b, c[m]} : u'.fds[q] = u.fds[q]
  BY DEF Grows, ForkStep
<1>3. EndsOf(c, K, m) /\ Fds = {"padre0", "padre1", "hijo0", "hijo1"}
  BY <1>1, EndsAre, FdsAssumption
<1>4. EndsOf(d, E, m)' /\ EndsOf(d, E, m + 1)'
  <2>1. CASE m = 1
    <3>1. ForkStep(c[m], b, k, "padre0", "padre1", "send")
      BY <2>1 DEF Grows
    <3>2. Fd(u.fds[c[m]], Closed, Closed, Closed, Closed)
      BY <1>1, <1>3, <2>1 DEF EndsOf
    <3>3. /\ Fd(u'.fds[c[m]], Closed, End(k, "w"), Closed, Closed)
          /\ Fd(u'.fds[b], End(k, "r"), End(k, "w"), Closed, Closed)
      BY <1>3, <3>1, <3>2 DEF ForkStep, Fd
    <3> QED
      BY <1>1, <2>1, <3>3 DEF EndsOf
  <2>2. CASE m > 1
    <3>1. ForkStep(c[m], b, k, "hijo0", "hijo1", "next")
      BY <2>2 DEF Grows
    <3>2. Fd(u.fds[c[m]], End(K[m], "r"), Closed, Closed, Closed)
      BY <1>1, <1>3, <2>2 DEF EndsOf
    <3>3. /\ Fd(u'.fds[c[m]], End(K[m], "r"), Closed, Closed, End(k, "w"))
          /\ Fd(u'.fds[b], End(K[m], "r"), Closed, End(k, "r"), End(k, "w"))
      BY <1>3, <3>1, <3>2 DEF ForkStep, Fd
    <3>4. (m + 1) - 1 = m /\ m \in 1..m
      BY <1>1
    <3>5. EndsOf(d, E, m)'
      BY <1>1, <2>2, <3>3, <3>4 DEF EndsOf
    <3>6. EndsOf(d, E, m + 1)'
      BY <1>1, <2>2, <3>3, <3>4 DEF EndsOf
    <3> QED
      BY <3>5, <3>6
  <2> QED
    BY <1>1, <2>1, <2>2
<1>5. ASSUME NEW j \in 1..m - 1
      PROVE  EndsOf(d, E, j)'
  <2>1. j \in 1..m /\ 2 \in 1..m /\ j + 1 \in 1..m /\ (j > 1 => j - 1 \in 1..m)
    BY <1>1
  <2>2. u'.fds[d[j]] = u.fds[c[j]] /\ pc'[d[j]] = pc[c[j]]
    BY <1>1, <1>2, <2>1
  <2>3. EndsOf(c, K, j)
    BY <2>1, EndsAre
  <2>4. E[2] = K[2] /\ E[j] = K[j] /\ E[j + 1] = K[j + 1] /\ (j > 2 => E[j - 1] = K[j - 1])
    BY <1>1, <2>1
  <2> QED
    BY <2>2, <2>3, <2>4 DEF EndsOf
<1> QED
  BY <1>1, <1>4, <1>5 DEF HasEnds

LEMMA GrowsPipes ==
    ASSUME NEW m, NEW c, NEW K, Structure(m, c, K), NEW b, NEW k, Grows(m, c, K, b, k),
           NEW d, Extends(m, c, d, b), NEW E, Extends(m, K, E, k)
    PROVE  HasPipes(m + 1, d, E)'
<1>1. /\ m \in Nat \ {0} /\ d[m + 1] = b /\ E[m + 1] = k /\ k \in Pipes /\ Unheld(u, k)
      /\ \A j \in 1..m : d[j] = c[j] /\ E[j] = K[j]
      /\ \A j \in 1..m - 1 : pc'[c[j]] = pc[c[j]]
      /\ pc[c[m]] = IF m = 1 THEN "main" ELSE "pipe"
  BY GrowsEs
<1>2. HasPipes(m, c, K)
  BY DEF Structure
<1>3. ASSUME NEW j \in 2..m, Used(m + 1, d, j)'
      PROVE  Used(m, c, j) /\ E[j] # k
  <2>1. Used(m, c, j)
    <3>1. CASE j = m
      BY <1>1, <3>1 DEF Used, Reading
    <3>2. CASE j \in 2..m - 1
      <4>1. j \in 1..m - 1 /\ j - 1 \in 1..m - 1 /\ j \in 1..m /\ j - 1 \in 1..m /\ j + 1 # m + 1
        BY <1>1, <3>2
      <4> QED
        BY <1>1, <1>3, <4>1 DEF Used
    <3> QED
      BY <1>1, <3>1, <3>2
  <2>2. ~Unheld(u, K[j])
    BY <2>1, UsedIsHeld
  <2> QED
    BY <1>1, <2>1, <2>2
<1>4. \A j \in 2..m + 1 : E[j] \in Pipes
  BY <1>1, <1>2 DEF HasPipes
<1>5. ASSUME NEW j \in 2..m + 1, NEW l \in 2..m + 1, Used(m + 1, d, j)', Used(m + 1, d, l)', E[j] = E[l]
      PROVE  j = l
  <2>1. CASE j \in 2..m /\ l \in 2..m
    BY <1>1, <1>2, <1>3, <1>5, <2>1 DEF HasPipes
  <2>2. CASE j = m + 1 \/ l = m + 1
    BY <1>1, <1>3, <1>5, <2>2
  <2> QED
    BY <1>1, <2>1, <2>2
<1> QED
  BY <1>4, <1>5 DEF HasPipes

LEMMA GrowsStructure ==
    ASSUME NEW m, NEW c, NEW K, Structure(m, c, K), NEW b, NEW k, Grows(m, c, K, b, k),
           NEW d, Extends(m, c, d, b), NEW E, Extends(m, K, E, k)
    PROVE  Structure(m + 1, d, E)'
  BY GrowsChain, GrowsPlaces, GrowsEnds, GrowsPipes DEF Structure

LEMMA MainPipeEs ==
    ASSUME TypeOK, NEW m, NEW c, NEW K, Structure(m, c, K), MainPipe
    PROVE  Grows(m, c, K, FreeProc(u), FreePipe(u))
<1>1. m \in Nat /\ Running(u, Main) /\ pc[Main] = "main" /\ Main \in Procs
  BY MainAssumption DEF MainPipe, At, Structure, Chain
<1>2. m = 1 /\ c[m] = Main
  BY <1>1, Where DEF Structure, Chain
<1>3. ForkStep(Main, FreeProc(u), FreePipe(u), "padre0", "padre1", "send")
  BY <1>1, FdsAssumption, ForkedEs DEF MainPipe
<1> QED
  BY <1>1, <1>2, <1>3 DEF Grows

LEMMA NewFilterEs ==
    ASSUME TypeOK, NEW m, NEW c, NEW K, Structure(m, c, K), NEW p \in Procs, NewFilter(p)
    PROVE  Grows(m, c, K, FreeProc(u), FreePipe(u))
<1>1. m \in Nat /\ Running(u, p) /\ pc[p] = "pipe"
  BY DEF NewFilter, At, Structure, Chain
<1>2. m > 1 /\ c[m] = p
  BY <1>1, Where
<1>3. ForkStep(p, FreeProc(u), FreePipe(u), "hijo0", "hijo1", "next")
  BY <1>1, FdsAssumption, ForkedEs DEF NewFilter
<1> QED
  BY <1>1, <1>2, <1>3 DEF Grows

-----------------------------------------------------------------------------
(***************************************************************************)
(* A process ends: the last one alive.                                     *)
(***************************************************************************)

Last(m, c, k) == pc[c[k]] # "ended" /\ \A j \in k + 1..m : pc[c[j]] = "ended"

\* The system after it
Leaves(m, c, k, y) ==
    /\ y \in UnixType /\ y.pipe = u.pipe
    /\ \A q \in Procs \ {c[k]} : y.fds[q] = u.fds[q]
    /\ \A d \in Fds : y.fds[c[k]][d] = Closed
    /\ y.state[c[k]] = IF k = 1 THEN "none" ELSE "zombie"
    /\ \A q \in Procs : (\A j \in 1..k : c[j] # q) => y.state[q] = "none"
    /\ \A j \in 1..k - 1 : y.state[c[j]] = u.state[c[j]]
    /\ \A j \in 2..k : y.parent[c[j]] = u.parent[c[j]]
    /\ k > 1 => y.parent[Main] = u.parent[Main]

EndStep(m, c, k) ==
    /\ Leaves(m, c, k, u')
    /\ \A q \in Procs \ {c[k]} :
          /\ pc'[q] = pc[q] /\ recibido'[q] = recibido[q] /\ numero'[q] = numero[q]
          /\ pid'[q] = pid[q] /\ stdout'[q] = stdout[q]
    /\ Nothing(c[k])' /\ pc'[c[k]] = "ended"
    /\ UNCHANGED <<n, tty, i>>
    /\ output' = output \/ output' = output \o stdout[c[k]]

LEMMA LastEs ==
    ASSUME NEW m, NEW c, NEW K, Structure(m, c, K), NEW k \in 1..m, Last(m, c, k)
    PROVE  m \in Nat /\ k \in Nat /\ (k = m \/ k = m - 1)
<1>1. m \in Nat
  BY DEF Structure, Chain
<1>2. CASE k < m - 1
  <2>1. k + 1 \in 1..m /\ k + 1 > 1 /\ k + 1 < m /\ k + 1 \in k + 1..m
    BY <1>1, <1>2
  <2>2. pc[c[k + 1]] \in {"next", "pass", "wait"}
    BY <2>1, Labels
  <2> QED
    BY <2>1, <2>2 DEF Last
<1> QED
  BY <1>1, <1>2

\* The parents of a chain
LEMMA Parents ==
    ASSUME NEW m, NEW c, NEW K, Structure(m, c, K), NEW k \in 1..m
    PROVE  /\ u.parent[c[k]] = InitProc <=> k = 1
           /\ \A j \in 1..m : u.parent[c[j]] = c[k] <=> j = k + 1
<1>1. m \in Nat /\ Chain(m, c) /\ InitProc \notin Procs
  BY InitProcAssumption DEF Structure, Chain
<1>2. \A j \in 2..m : u.parent[c[j]] = c[j - 1] /\ j - 1 \in 1..m /\ c[j - 1] \in Procs
  BY <1>1 DEF Chain
<1>3. u.parent[c[1]] = InitProc
  BY <1>1 DEF Chain
<1>4. \A j \in 1..m : j = 1 \/ j \in 2..m
  BY <1>1
<1>5. ASSUME NEW j \in 1..m
      PROVE  u.parent[c[j]] = c[k] <=> j = k + 1
  <2>1. CASE j = 1
    BY <1>1, <1>3, <2>1 DEF Chain
  <2>2. CASE j \in 2..m
    <3>1. j - 1 = k <=> c[j - 1] = c[k]
      BY <1>1, <1>2, <2>2 DEF Chain
    <3> QED
      BY <1>1, <1>2, <2>2, <3>1
  <2> QED
    BY <1>4, <2>1, <2>2
<1> QED
  BY <1>1, <1>2, <1>3, <1>4, <1>5

\* What the system does when c[k] ends and its child, a zombie, goes with it
LEMMA ExitIs ==
    ASSUME NEW m, NEW c, NEW K, Structure(m, c, K), u \in UnixType, NEW k \in 1..m, Last(m, c, k),
           NEW x, x = u \/ (k < m /\ x = Reap(u, c[m])), NEW y, y = Exit(x, c[k])
    PROVE  Leaves(m, c, k, y)
<1>1. Chain(m, c) /\ m \in Nat /\ (k = m \/ k = m - 1) /\ c[k] \in Procs /\ c[m] \in Procs
      /\ m \in 1..m
  BY LastEs DEF Structure, Chain
<1>2. /\ x \in UnixType /\ x.pipe = u.pipe /\ x.fds = u.fds
      /\ \A q \in Procs : q # c[m] \/ k = m => x.state[q] = u.state[q] /\ x.parent[q] = u.parent[q]
      /\ k # m => \/ x.state[c[m]] = u.state[c[m]] /\ x.parent[c[m]] = u.parent[c[m]]
                  \/ x.state[c[m]] = "none" /\ x.parent[c[m]] = InitProc
  BY <1>1, ReapEs
<1>3. \A j \in 1..k : /\ c[j] \in Procs /\ (c[j] # c[m] \/ k = m)
                      /\ x.state[c[j]] = u.state[c[j]] /\ x.parent[c[j]] = u.parent[c[j]]
                      /\ u.parent[c[j]] # c[k]
                      /\ (u.parent[c[j]] = InitProc <=> j = 1)
  <2> SUFFICES ASSUME NEW j \in 1..k
               PROVE  /\ c[j] \in Procs /\ (c[j] # c[m] \/ k = m)
                      /\ x.state[c[j]] = u.state[c[j]] /\ x.parent[c[j]] = u.parent[c[j]]
                      /\ u.parent[c[j]] # c[k]
                      /\ (u.parent[c[j]] = InitProc <=> j = 1)
    OBVIOUS
  <2>1. j \in 1..m /\ j # k + 1 /\ (j # m \/ k = m)
    BY <1>1
  <2>2. c[j] \in Procs /\ (c[j] # c[m] \/ k = m)
    BY <1>1, <2>1 DEF Chain
  <2> QED
    BY <1>2, <2>1, <2>2, Parents
<1>4. Exited(x, c[k], y)
  BY <1>1, <1>2, ExitEs
<1>5. k \in 1..k /\ \A j \in 1..k - 1 : j \in 1..k /\ c[j] # c[k]
  BY <1>1 DEF Chain
<1>6. y.state[c[k]] = IF k = 1 THEN "none" ELSE "zombie"
  BY <1>1, <1>3, <1>4, <1>5 DEF Exited
<1>7. \A j \in 1..k - 1 : y.state[c[j]] = u.state[c[j]]
  BY <1>3, <1>4, <1>5 DEF Exited
<1>8. \A j \in 2..k : y.parent[c[j]] = u.parent[c[j]]
  BY <1>1, <1>3, <1>4 DEF Exited
<1>9. k > 1 => y.parent[Main] = u.parent[Main]
  <2> SUFFICES ASSUME k > 1
               PROVE  y.parent[Main] = u.parent[Main]
    OBVIOUS
  <2>1. c[1] = Main /\ 1 \in 1..k /\ 1 \in 1..k - 1
    BY <1>1 DEF Chain
  <2> QED
    BY <1>3, <1>4, <1>5, <2>1 DEF Exited
<1>10. ASSUME NEW q \in Procs, \A j \in 1..k : c[j] # q
       PROVE  y.state[q] = "none"
  <2>1. CASE k # m /\ q = c[m]
    <3>1. k + 1 = m /\ u.parent[c[m]] = c[k] /\ pc[c[m]] = "ended"
      BY <1>1, <2>1, Parents DEF Last
    <3>2. u.state[c[m]] = "zombie"
      BY <1>1, <3>1 DEF Chain
    <3>3. c[k] # InitProc
      BY <1>1, InitProcAssumption
    <3>4. q # c[k]
      BY <1>5, <1>10
    <3> QED
      BY <1>2, <1>4, <2>1, <3>1, <3>2, <3>3, <3>4 DEF Exited
  <2>2. CASE k = m \/ q # c[m]
    <3>1. \A j \in 1..m : c[j] # q
      BY <1>1, <1>10, <2>2
    <3>2. u.state[q] = "none"
      BY <1>1, <3>1 DEF Chain
    <3>3. q # c[k]
      BY <3>1
    <3> QED
      BY <1>2, <1>4, <2>2, <3>2, <3>3 DEF Exited
  <2> QED
    BY <2>1, <2>2
<1> QED
  BY <1>2, <1>4, <1>6, <1>7, <1>8, <1>9, <1>10 DEF Exited, Leaves

LEMMA EndedEs ==
    ASSUME TypeOK, NEW m, NEW c, NEW K, Structure(m, c, K), NEW k \in 1..m, Last(m, c, k),
           NEW x, x = u \/ (k < m /\ x = Reap(u, c[m])), NEW w \in BOOLEAN, Ended(c[k], x, w)
    PROVE  EndStep(m, c, k)
<1>1. u \in UnixType /\ c[k] \in Procs
  BY DEF TypeOK, Structure, Chain
<1>2. u' = Exit(x, c[k])
  BY DEF Ended
<1>3. Leaves(m, c, k, u')
  BY <1>1, <1>2, ExitIs
<1>4. pc'[c[k]] = "ended" /\ \A q \in Procs \ {c[k]} : pc'[q] = pc[q]
  BY <1>1, GotoEs DEF Ended
<1>5. /\ recibido'[c[k]] = 0 /\ numero'[c[k]] = 0 /\ pid'[c[k]] = InitProc /\ stdout'[c[k]] = <<>>
      /\ \A q \in Procs \ {c[k]} :
            /\ recibido'[q] = recibido[q] /\ numero'[q] = numero[q]
            /\ pid'[q] = pid[q] /\ stdout'[q] = stdout[q]
  BY <1>1 DEF Ended, TypeOK
<1>6. Nothing(c[k])'
  BY <1>3, <1>5 DEF Nothing, Leaves
<1>7. UNCHANGED <<n, tty, i>> /\ (output' = output \/ output' = output \o stdout[c[k]])
  BY DEF Ended
<1> QED
  BY <1>3, <1>4, <1>5, <1>6, <1>7 DEF EndStep

LEMMA EndStepOthers ==
    ASSUME NEW m, NEW c, NEW K, Structure(m, c, K), NEW k \in 1..m, EndStep(m, c, k),
           NEW j \in 1..m, j # k
    PROVE  /\ u'.fds[c[j]] = u.fds[c[j]] /\ pc'[c[j]] = pc[c[j]] /\ recibido'[c[j]] = recibido[c[j]]
           /\ numero'[c[j]] = numero[c[j]] /\ pid'[c[j]] = pid[c[j]] /\ stdout'[c[j]] = stdout[c[j]]
<1>1. c[j] \in Procs \ {c[k]}
  BY DEF Structure, Chain
<1> QED
  BY <1>1 DEF EndStep, Leaves

LEMMA EndStepNothing ==
    ASSUME NEW m, NEW c, NEW K, Structure(m, c, K), NEW k \in 1..m, Last(m, c, k), EndStep(m, c, k),
           NEW q \in Procs
    PROVE  /\ pc'[q] = "ended" => Nothing(q)'
           /\ (\A j \in 1..k - 1 : c[j] # q) => pc'[q] = "ended"
<1>1. Chain(m, c) /\ c[k] \in Procs /\ m \in Nat /\ k \in Nat
  BY LastEs DEF Structure, Chain
<1>2. CASE q = c[k]
  BY <1>2 DEF EndStep
<1>3. CASE q # c[k]
  <2>1. pc'[q] = pc[q] /\ (Nothing(q) => Nothing(q)')
    BY <1>3 DEF EndStep, Leaves, Nothing
  <2>2. ASSUME \A j \in 1..k - 1 : c[j] # q
        PROVE  pc[q] = "ended"
    <3>1. CASE \E j \in 1..m : c[j] = q
      <4>1. PICK j \in 1..m : c[j] = q
        BY <3>1
      <4>2. j \in k + 1..m
        BY <1>1, <1>3, <2>2, <4>1
      <4> QED
        BY <4>1, <4>2 DEF Last
    <3>2. CASE \A j \in 1..m : c[j] # q
      BY <1>1, <3>2 DEF Chain
    <3> QED
      BY <3>1, <3>2
  <2> QED
    BY <1>1, <2>1, <2>2 DEF Chain
<1> QED
  BY <1>2, <1>3

LEMMA AllGone ==
    ASSUME NEW m, NEW c, NEW K, Structure(m, c, K), 1 \in 1..m, Last(m, c, 1), EndStep(m, c, 1)
    PROVE  Structure(0, c, K)'
<1>1. \A q \in Procs : pc'[q] = "ended" /\ Nothing(q)'
  BY EndStepNothing
<1>2. c[1] \in Procs
  BY DEF Structure, Chain
<1>3. ASSUME NEW q \in Procs
      PROVE  u'.state[q] = "none"
  <2>1. CASE q = c[1]
    BY <2>1 DEF EndStep, Leaves
  <2>2. CASE q # c[1]
    <3>1. \A j \in 1..1 : c[j] # q
      BY <2>2
    <3> QED
      BY <3>1 DEF EndStep, Leaves
  <2> QED
    BY <2>1, <2>2
<1>4. Chain(0, c)'
  BY <1>1, <1>3 DEF Chain
<1>5. Places(0, c)' /\ HasEnds(0, c, K)' /\ HasPipes(0, c, K)'
  BY DEF Places, HasEnds, HasPipes
<1> QED
  BY <1>4, <1>5 DEF Structure

LEMMA EndsStructure ==
    ASSUME NEW m, NEW c, NEW K, Structure(m, c, K), NEW k \in 2..m, Last(m, c, k), EndStep(m, c, k)
    PROVE  Structure(k, c, K)'
<1>1. Chain(m, c) /\ m \in Nat /\ k \in 1..m /\ k \in Nat
  BY LastEs DEF Structure, Chain
<1>2. \A j \in 1..k : j \in 1..m /\ (j # k => pc'[c[j]] = pc[c[j]] /\ pid'[c[j]] = pid[c[j]] /\ u'.fds[c[j]] = u.fds[c[j]])
  BY <1>1, EndStepOthers
<1>3. /\ pc'[c[k]] = "ended" /\ u'.state[c[k]] = "zombie"
      /\ \A j \in 1..k - 1 : u'.state[c[j]] = u.state[c[j]]
      /\ \A j \in 2..k : u'.parent[c[j]] = u.parent[c[j]]
      /\ u'.parent[Main] = u.parent[Main]
      /\ \A q \in Procs : (\A j \in 1..k : c[j] # q) => u'.state[q] = "none"
  BY <1>1 DEF EndStep, Leaves
<1>4. Chain(k, c)'
  <2>1. \A j \in 1..k : c[j] \in Procs
    BY <1>1, <1>2 DEF Chain
  <2>2. \A j, l \in 1..k : c[j] = c[l] => j = l
    BY <1>1, <1>2 DEF Chain
  <2>3. c[1] = Main /\ u'.parent[Main] = InitProc
    BY <1>1, <1>3 DEF Chain
  <2>4. ASSUME NEW j \in 2..k
        PROVE  u'.parent[c[j]] = c[j - 1] /\ pid'[c[j - 1]] = c[j]
    <3>1. j \in 2..m /\ j - 1 \in 1..k /\ j - 1 # k
      BY <1>1
    <3> QED
      BY <1>1, <1>2, <1>3, <3>1 DEF Chain
  <2>5. ASSUME NEW j \in 1..k
        PROVE  u'.state[c[j]] = IF pc'[c[j]] = "ended" THEN "zombie" ELSE "running"
    <3>1. CASE j = k
      BY <1>3, <3>1
    <3>2. CASE j \in 1..k - 1
      BY <1>1, <1>2, <1>3, <3>2 DEF Chain
    <3> QED
      BY <1>1, <3>1, <3>2
  <2>6. ASSUME NEW q \in Procs, \A j \in 1..k : c[j] # q
        PROVE  u'.state[q] = "none" /\ pc'[q] = "ended"
    <3>1. \A j \in 1..k - 1 : c[j] # q
      BY <1>1, <2>6
    <3> QED
      BY <1>1, <1>3, <2>6, <3>1, EndStepNothing
  <2>7. \A q \in Procs : pc'[q] = "ended" => Nothing(q)'
    BY <1>1, EndStepNothing
  <2> QED
    BY <1>1, <2>1, <2>2, <2>3, <2>4, <2>5, <2>6, <2>7 DEF Chain
<1>5. Places(k, c)'
  <2>1. Places(m, c)
    BY DEF Structure
  <2>2. pc'[c[1]] \in {"send", "wait"}
    BY <1>1, <1>2, <2>1 DEF Places
  <2>3. ASSUME NEW j \in 2..k - 1
        PROVE  pc'[c[j]] \in {"next", "pass", "wait"}
    <3>1. j \in 1..k /\ j # k /\ j \in 2..m - 1
      BY <1>1
    <3> QED
      BY <1>2, <2>1, <3>1 DEF Places
  <2>4. ASSUME NEW j \in 2..k, pc'[c[j]] = "wait"
        PROVE  pc'[c[j - 1]] = "wait"
    <3>1. j # k
      BY <1>3, <2>4
    <3>2. j \in 1..k /\ j - 1 \in 1..k /\ j - 1 # k /\ j \in 2..m
      BY <1>1
    <3> QED
      BY <1>2, <2>1, <2>4, <3>1, <3>2 DEF Places
  <2> QED
    BY <1>1, <1>3, <2>2, <2>3, <2>4 DEF Places
<1>6. HasEnds(k, c, K)'
  <2> SUFFICES ASSUME NEW j \in 1..k
               PROVE  EndsOf(c, K, j)'
    BY DEF HasEnds
  <2>1. CASE j = k
    BY <1>3, <2>1 DEF EndsOf
  <2>2. CASE j # k
    BY <1>2, <2>2, EndsAre DEF EndsOf
  <2> QED
    BY <2>1, <2>2
<1>7. HasPipes(k, c, K)'
  <2>1. ASSUME NEW j \in 2..k, Used(k, c, j)'
        PROVE  Used(m, c, j) /\ j \in 2..m
    <3>1. j \in 1..k /\ j - 1 \in 1..k /\ j - 1 # k /\ j \in 2..m
      BY <1>1
    <3> QED
      BY <1>2, <1>3, <2>1, <3>1 DEF Used, Reading
  <2>2. HasPipes(m, c, K) /\ \A j \in 2..k : j \in 2..m
    BY <1>1 DEF Structure
  <2> QED
    BY <2>1, <2>2 DEF HasPipes
<1> QED
  BY <1>4, <1>5, <1>6, <1>7 DEF Structure

\* The steps that end a process
LEMMA MainFailsEs ==
    ASSUME TypeOK, NEW m, NEW c, NEW K, Structure(m, c, K), MainFails
    PROVE  m = 1 /\ Last(m, c, 1) /\ EndStep(m, c, 1) /\ failed' = TRUE
<1>1. m \in Nat /\ Running(u, Main) /\ pc[Main] = "main" /\ Main \in Procs
  BY MainAssumption DEF MainFails, At, Structure, Chain
<1>2. m = 1 /\ c[1] = Main
  BY <1>1, Where DEF Structure, Chain
<1>3. Last(m, c, 1) /\ 1 \in 1..m
  BY <1>1, <1>2 DEF Last
<1>4. Ended(c[1], u, TRUE) /\ failed' = TRUE
  BY <1>2 DEF MainFails, Failed
<1> QED
  BY <1>2, <1>3, <1>4, EndedEs

LEMMA FirstEofEs ==
    ASSUME TypeOK, NEW m, NEW c, NEW K, Structure(m, c, K), NEW p \in Procs, FirstEof(p)
    PROVE  /\ m > 1 /\ p = c[m] /\ Last(m, c, m) /\ EndStep(m, c, m) /\ failed' = failed
           /\ pc[p] = "first" /\ pc[c[m - 1]] = "wait" /\ u.pipe[K[m]] = <<>>
           /\ output' = output \o stdout[p]
<1>1. m \in Nat /\ Running(u, p) /\ pc[p] = "first"
  BY DEF FirstEof, At, Structure, Chain
<1>2. m > 1 /\ p = c[m] /\ m \in 1..m /\ m \in 2..m
  BY <1>1, Where
<1>3. Last(m, c, m)
  BY <1>1, <1>2 DEF Last
<1>4. Ended(c[m], u, TRUE) /\ failed' = failed
  BY <1>2 DEF FirstEof
<1>5. pc[c[m - 1]] = "wait" /\ u.pipe[K[m]] = <<>>
  BY <1>1, <1>2, EofMeansWaits DEF FirstEof
<1>6. EndStep(m, c, m)
  BY <1>2, <1>3, <1>4, EndedEs
<1> QED
  BY <1>1, <1>2, <1>3, <1>4, <1>5, <1>6 DEF Ended

LEMMA NewFilterFailsEs ==
    ASSUME TypeOK, NEW m, NEW c, NEW K, Structure(m, c, K), NEW p \in Procs, NewFilterFails(p)
    PROVE  /\ m > 1 /\ p = c[m] /\ Last(m, c, m) /\ EndStep(m, c, m) /\ failed' = TRUE
<1>1. m \in Nat /\ Running(u, p) /\ pc[p] = "pipe"
  BY DEF NewFilterFails, At, Structure, Chain
<1>2. m > 1 /\ p = c[m] /\ m \in 1..m
  BY <1>1, Where
<1>3. Last(m, c, m)
  BY <1>1, <1>2 DEF Last
<1>4. Ended(c[m], u, TRUE) /\ failed' = TRUE
  BY <1>2 DEF NewFilterFails, Failed
<1> QED
  BY <1>2, <1>3, <1>4, EndedEs

LEMMA SigpipeEs ==
    ASSUME TypeOK, NEW m, NEW c, NEW K, Structure(m, c, K), NEW p \in Procs, Sigpipe(p)
    PROVE  /\ m > 1 /\ p = c[m - 1] /\ pc[c[m]] = "ended" /\ Last(m, c, m - 1) /\ EndStep(m, c, m - 1)
           /\ failed' = failed
<1>1. m \in Nat /\ Running(u, p) /\ pc[p] \in {"send", "pass"}
  BY DEF Sigpipe, At, Structure, Chain
<1>2. PICK k \in 1..m : p = c[k] /\ k + 1 \in 2..m
  <2>1. PICK k \in 1..m : /\ p = c[k]
                          /\ pc[p] = "send" => k = 1 /\ m > 1
                          /\ pc[p] \in {"next", "pass"} => k \in 2..m - 1
    BY <1>1, Where
  <2> QED
    BY <1>1, <2>1
<1>3. (k + 1) - 1 = k /\ c[(k + 1) - 1] = p
  BY <1>1, <1>2
<1>4. \E d \in Fds : u.fds[p][d] = End(K[k + 1], "w") /\ Broken(u, p, d)
  <2>1. CASE pc[p] = "send"
    BY <1>2, <1>3, <2>1, Holds, FdsAssumption DEF Sigpipe, At
  <2>2. CASE pc[p] = "pass"
    BY <1>2, <1>3, <2>2, Holds, FdsAssumption DEF Sigpipe, At
  <2> QED
    BY <1>1, <2>1, <2>2
<1>5. k + 1 = m /\ pc[c[m]] = "ended"
  BY <1>1, <1>2, <1>3, <1>4, BrokenMeansEnded DEF Writing
<1>6. k = m - 1 /\ Last(m, c, k)
  BY <1>1, <1>2, <1>5 DEF Last
<1>7. Ended(c[k], u, FALSE) /\ failed' = failed
  BY <1>2 DEF Sigpipe
<1>8. EndStep(m, c, k)
  BY <1>6, <1>7, EndedEs
<1> QED
  BY <1>1, <1>2, <1>5, <1>6, <1>7, <1>8

LEMMA WaitEs ==
    ASSUME TypeOK, NEW m, NEW c, NEW K, Structure(m, c, K), NEW p \in Procs, Wait(p)
    PROVE  /\ m > 1 /\ p = c[m - 1] /\ pc[c[m]] = "ended" /\ Last(m, c, m - 1) /\ EndStep(m, c, m - 1)
           /\ failed' = failed
<1>1. m \in Nat /\ Running(u, p) /\ pc[p] = "wait"
  BY DEF Wait, At, Structure, Chain
<1>2. PICK k \in 1..m - 1 : p = c[k]
  <2>1. \E k \in 1..m : p = c[k] /\ k \in 1..m - 1
    BY <1>1, Where
  <2> QED
    BY <2>1
<1>3. k + 1 \in 2..m /\ k + 1 \in 1..m /\ (k + 1) - 1 = k
  BY <1>1
<1>4. pid[p] = c[k + 1]
  BY <1>2, <1>3 DEF Structure, Chain
<1>5. pc[c[k + 1]] = "ended"
  BY <1>3, <1>4 DEF Wait, Structure, Chain
<1>6. k + 1 = m
  BY <1>1, <1>3, <1>5, Labels
<1>7. k = m - 1 /\ k \in 1..m /\ Last(m, c, k)
  BY <1>1, <1>2, <1>3, <1>5, <1>6 DEF Last
<1>8. Ended(c[k], Reap(u, c[m]), TRUE) /\ failed' = failed
  BY <1>2, <1>4, <1>6 DEF Wait
<1>9. EndStep(m, c, k)
  <2> DEFINE x == Reap(u, c[m])
  <2>1. k < m
    BY <1>1, <1>7
  <2>3. x = Reap(u, c[m]) /\ Ended(c[k], x, TRUE)
    BY <1>8, Zenon
  <2> HIDE DEF x
  <2>2. x = u \/ (k < m /\ x = Reap(u, c[m]))
    BY <2>1, <2>3
  <2> QED
    BY <1>7, <2>2, <2>3, EndedEs
<1> QED
  BY <1>1, <1>2, <1>5, <1>6, <1>7, <1>8, <1>9

-----------------------------------------------------------------------------
(***************************************************************************)
(* The pipes as queues.                                                    *)
(***************************************************************************)

LEMMA QueueAppend ==
    ASSUME NEW N \in SUBSET Nat, NEW s \in Seq(Nat), NEW a \in Nat, NEW v \in Nat,
           Queue(s, N, a, v), v \in N
    PROVE  Queue(Append(s, v), N, a, v + 1)
<1>1. \A w \in Elems(s) : w < v
  BY DEF Queue
<1>2. Increasing(Append(s, v))
  BY <1>1, IncreasingAppend DEF Queue
<1>3. Elems(Append(s, v)) = Elems(s) \cup {v}
  BY ElemsAppend
<1>4. {w \in N : a <= w /\ w < v + 1} = {w \in N : a <= w /\ w < v} \cup {v}
  <2>1. a <= v
    BY DEF Queue
  <2>2. \A w \in N : w \in Nat /\ (w < v + 1 <=> w < v \/ w = v)
    OBVIOUS
  <2> QED
    BY <2>1, <2>2
<1> QED
  BY <1>2, <1>3, <1>4 DEF Queue

LEMMA QueueTake ==
    ASSUME NEW N \in SUBSET Nat, NEW s \in Seq(Nat), NEW a \in Nat, NEW b \in Nat,
           Queue(s, N, a, b), s # <<>>
    PROVE  /\ Head(s) \in N /\ a <= Head(s) /\ Head(s) < b
           /\ Queue(Tail(s), N, Head(s) + 1, b)
           /\ \A w \in N : a <= w => Head(s) <= w
<1> DEFINE v == Head(s)
<1>1. /\ v \in Elems(s) /\ v \in Nat /\ Increasing(Tail(s))
      /\ Elems(Tail(s)) = {w \in Elems(s) : w > v}
      /\ \A w \in Elems(s) : v <= w
  <2>1. /\ v \in Elems(s) /\ v \in Nat /\ Increasing(Tail(s))
        /\ Elems(Tail(s)) = {w \in Elems(s) : w > v}
    BY HeadIsLeast DEF Queue
  <2>2. ASSUME NEW x \in 1..Len(s)
        PROVE  v <= s[x]
    <3>1. v = s[1] /\ Len(s) \in Nat /\ s[x] \in Nat
      OBVIOUS
    <3>2. CASE x > 1
      <4>1. 1 \in 1..x - 1
        BY <3>1, <3>2
      <4> QED
        BY <3>1, <4>1, <2>1 DEF Queue, Increasing
    <3> QED
      BY <3>1, <3>2
  <2> QED
    BY <2>1, <2>2 DEF Elems
<1> HIDE DEF v
<1>2. v \in N /\ a <= v /\ v < b
  BY <1>1 DEF Queue
<1>3. ASSUME NEW w \in N, a <= w
      PROVE  v <= w
  <2>1. CASE w < b
    BY <1>1, <1>3, <2>1 DEF Queue
  <2>2. CASE w >= b
    BY <1>1, <1>2, <2>2
  <2> QED
    BY <2>1, <2>2
<1>4. {w \in Elems(s) : w > v} = {w \in N : v + 1 <= w /\ w < b}
  <2>1. \A w \in N : w \in Nat /\ (v + 1 <= w => a <= w) /\ (v + 1 <= w <=> w > v)
    BY <1>1, <1>2
  <2>2. Elems(s) = {w \in N : a <= w /\ w < b}
    BY DEF Queue
  <2> QED
    BY <2>1, <2>2
<1>5. Queue(Tail(s), N, v + 1, b)
  BY <1>1, <1>2, <1>4 DEF Queue
<1> QED
  BY <1>2, <1>3, <1>5 DEF v

LEMMA QueueShift ==
    ASSUME NEW N \in SUBSET Nat, NEW s, NEW a \in Nat, NEW b \in Nat, NEW d \in Nat,
           Queue(s, N, a, b), b <= d, \A w \in N : ~(b <= w /\ w < d)
    PROVE  Queue(s, N, a, d)
<1>1. \A w \in N : w \in Nat /\ (w < b <=> w < d)
  OBVIOUS
<1>2. {w \in N : a <= w /\ w < b} = {w \in N : a <= w /\ w < d}
  BY <1>1
<1> QED
  BY <1>2 DEF Queue

LEMMA NumbersAre ==
    ASSUME NEW c, NEW k \in Nat, TypeOK
    PROVE  /\ Numbers(c, k) \in SUBSET Nat
           /\ \A v \in Numbers(c, k) : v \in Nat /\ 2 <= v /\ v <= n
  BY DEF Numbers, TypeOK

LEMMA NumbersNext ==
    ASSUME NEW c, NEW k \in Nat, k >= 2
    PROVE  Numbers(c, k + 1) = {v \in Numbers(c, k) : v % recibido[c[k]] # 0}
<1>1. \A j : j \in 2..(k + 1) - 1 <=> j \in 2..k - 1 \/ j = k
  OBVIOUS
<1> QED
  BY <1>1 DEF Numbers

LEMMA NumbersSame ==
    ASSUME NEW c, NEW d, NEW k \in Nat, n' = n,
           \A j \in 2..k - 1 : recibido'[d[j]] = recibido[c[j]]
    PROVE  Numbers(d, k)' = Numbers(c, k)
  BY DEF Numbers

LEMMA StreamSame ==
    ASSUME NEW c, NEW d, NEW L, NEW M, NEW k \in Nat \ {0}, StreamOf(c, L, k),
           M[k] = L[k], pc'[d[k]] = pc[c[k]], numero'[d[k]] = numero[c[k]],
           n' = n, k = 1 => i' = i,
           \A j \in 2..k : recibido'[d[j]] = recibido[c[j]], recibido'[d[k]] = recibido[c[k]]
    PROVE  StreamOf(d, M, k)'
<1>1. Numbers(d, k)' = Numbers(c, k)
  BY NumbersSame
<1>2. Numbers(d, k + 1)' = Numbers(c, k + 1)
  <2>1. \A j \in 2..(k + 1) - 1 : j \in 2..k
    OBVIOUS
  <2> QED
    BY <2>1, NumbersSame
<1> QED
  BY <1>1, <1>2 DEF StreamOf, Sieves

LEMMA FlowsSame ==
    ASSUME NEW c, NEW d, NEW K, NEW E, NEW L, NEW M, NEW k \in Nat, Flows(c, K, L, k),
           M[k] = L[k], M[k - 1] = L[k - 1], u'.pipe[E[k]] = u.pipe[K[k]],
           pc'[d[k - 1]] = pc[c[k - 1]] \/ (pc'[d[k - 1]] # "pass" /\ pc[c[k - 1]] # "pass"),
           numero'[d[k - 1]] = numero[c[k - 1]],
           n' = n, \A j \in 2..k - 1 : recibido'[d[j]] = recibido[c[j]]
    PROVE  Flows(d, E, M, k)'
<1>1. Numbers(d, k)' = Numbers(c, k)
  BY NumbersSame
<1>2. Sent(d, M, k - 1)' = Sent(c, L, k - 1)
  BY DEF Sent
<1> QED
  BY <1>1, <1>2 DEF Flows

LEMMA OtherPipe ==
    ASSUME NEW m, NEW c, NEW K, Structure(m, c, K), NEW j \in 2..m, NEW k \in 2..m, j # k,
           pc[c[j]] \in Reading, pc[c[k]] \in Reading \/ pc[c[k - 1]] \in Writing
    PROVE  K[j] \in Pipes \ {K[k]}
  BY DEF Structure, HasPipes, Used

LEMMA LocalStreams ==
    ASSUME NEW m, NEW c, NEW K, Structure(m, c, K), NEW L, Streams(m, c, K, L),
           NEW k \in 1..m, LocalStep(c[k]), NEW M, \A j \in 1..m : j # k => M[j] = L[j],
           k # 1 => i' = i,
           k # m => recibido'[c[k]] = recibido[c[k]],
           StreamOf(c, M, k)',
           k > 1 /\ pc'[c[k]] \in Reading => Flows(c, K, M, k)',
           k < m /\ pc[c[k + 1]] \in Reading => Flows(c, K, M, k + 1)',
           \A j \in 2..m : j # k /\ j # k + 1 /\ pc[c[j]] \in Reading => u'.pipe[K[j]] = u.pipe[K[j]]
    PROVE  Streams(m, c, K, M)'
<1>1. m \in Nat /\ k \in Nat
  BY DEF Structure, Chain
<1>2. \A j \in 1..m : j # k => /\ pc'[c[j]] = pc[c[j]] /\ recibido'[c[j]] = recibido[c[j]]
                               /\ numero'[c[j]] = numero[c[j]]
  BY LocalOthers
<1>3. \A j \in 1..m : j # m => recibido'[c[j]] = recibido[c[j]]
  BY <1>2
<1>4. n' = n
  BY DEF LocalStep
<1>5. ASSUME NEW j \in 1..m, j # k
      PROVE  StreamOf(c, M, j)'
  <2>1. StreamOf(c, L, j) /\ j \in Nat \ {0} /\ (j = 1 => i' = i)
    BY <1>1, <1>5 DEF Streams
  <2>2. \A x \in 2..j : recibido'[c[x]] = recibido[c[x]]
    BY <1>1, <1>2, <1>3, <1>5
  <2>3. M[j] = L[j] /\ pc'[c[j]] = pc[c[j]] /\ numero'[c[j]] = numero[c[j]] /\ recibido'[c[j]] = recibido[c[j]]
    BY <1>2, <1>5
  <2> QED
    BY <1>4, <2>1, <2>2, <2>3, StreamSame
<1>6. ASSUME NEW j \in 2..m, j # k, j # k + 1, pc'[c[j]] \in Reading
      PROVE  Flows(c, K, M, j)'
  <2>1. j \in Nat /\ j \in 1..m /\ j - 1 \in 1..m /\ j - 1 # k
    BY <1>1, <1>6
  <2>2. pc[c[j]] \in Reading
    BY <1>2, <1>6, <2>1
  <2>3. Flows(c, K, L, j) /\ u'.pipe[K[j]] = u.pipe[K[j]]
    BY <1>6, <2>2 DEF Streams
  <2>4. M[j] = L[j] /\ M[j - 1] = L[j - 1]
    BY <1>6, <2>1
  <2>5. \A x \in 2..j - 1 : recibido'[c[x]] = recibido[c[x]]
    BY <1>1, <1>3, <2>1
  <2> QED
    BY <1>2, <1>4, <2>1, <2>3, <2>4, <2>5, FlowsSame
<1>7. ASSUME NEW j \in 2..m, pc'[c[j]] \in Reading
      PROVE  Flows(c, K, M, j)'
  <2>1. CASE j = k
    BY <1>7, <2>1
  <2>2. CASE j = k + 1
    <3>1. k < m /\ j \in 1..m /\ j # k
      BY <1>1, <2>2
    <3>2. pc[c[k + 1]] \in Reading
      BY <1>2, <1>7, <2>2, <3>1
    <3> QED
      BY <2>2, <3>1, <3>2
  <2> QED
    BY <1>6, <1>7, <2>1, <2>2
<1> QED
  BY <1>5, <1>7 DEF Streams

-----------------------------------------------------------------------------
(***************************************************************************)
(* Each step keeps the streams.                                            *)
(***************************************************************************)

\* A level changes.
With(m, L, k, v, M) == M[k] = v /\ \A j \in 1..m : j # k => M[j] = L[j]

LEMMA WithEx ==
    \A m, L, v : \A k \in 1..m : \E M : With(m, L, k, v, M)
<1> SUFFICES ASSUME NEW m, NEW L, NEW v, NEW k \in 1..m
             PROVE  \E M : With(m, L, k, v, M)
  OBVIOUS
<1> DEFINE M == [j \in 1..m |-> IF j = k THEN v ELSE L[j]]
<1>1. M[k] = v /\ \A j \in 1..m : j # k => M[j] = L[j]
  OBVIOUS
<1>2. With(m, L, k, v, M)
  BY <1>1 DEF With
<1> QED
  BY <1>2

LEMMA Levels ==
    ASSUME TypeOK, NEW m, NEW c, NEW K, Structure(m, c, K), NEW L, Streams(m, c, K, L), NEW k \in 1..m
    PROVE  /\ StreamOf(c, L, k) /\ L[k] \in Nat /\ L[k] >= 2 /\ Sent(c, L, k) \in Nat /\ k \in Nat /\ k >= 1
           /\ n \in Nat /\ c[k] \in Procs /\ m \in Nat
           /\ \A j \in Nat : Numbers(c, j) \in SUBSET Nat
           /\ \A j \in Nat : \A v \in Numbers(c, j) : v \in Nat /\ 2 <= v /\ v <= n
<1>1. StreamOf(c, L, k) /\ m \in Nat /\ c[k] \in Procs
  BY DEF Streams, Structure, Chain
<1>2. L[k] \in Nat /\ L[k] >= 2 /\ n \in Nat /\ numero[c[k]] \in Nat
  BY <1>1 DEF StreamOf, TypeOK
<1> QED
  BY <1>1, <1>2, NumbersAre DEF Sent

LEMMA MainSendStreams ==
    ASSUME TypeOK, NEW m, NEW c, NEW K, Structure(m, c, K), NEW L, Streams(m, c, K, L), MainSend
    PROVE  \E M : Streams(m, c, K, M)'
<1>1. /\ m > 1 /\ pc[c[1]] = "send" /\ LocalStep(c[1])
      /\ i <= n /\ i' = i + 1 /\ pc' = pc
      /\ u'.pipe[K[2]] = Append(u.pipe[K[2]], i)
      /\ \A j \in Pipes \ {K[2]} : u'.pipe[j] = u.pipe[j]
      /\ UNCHANGED <<recibido, numero, stdout, output>>
  BY MainSendEs
<1>2. m \in Nat /\ 1 \in 1..m /\ 2 \in 1..m /\ 2 \in 2..m
  BY <1>1 DEF Structure, Chain
<1>3. StreamOf(c, L, 1) /\ L[1] = i /\ L[1] \in Nat /\ L[1] >= 2 /\ L[2] \in Nat /\ n \in Nat
      /\ n' = n /\ \A j \in Nat : Numbers(c, j) \in SUBSET Nat
  <2>1. /\ StreamOf(c, L, 1) /\ L[1] \in Nat /\ L[1] >= 2 /\ n \in Nat
        /\ \A j \in Nat : Numbers(c, j) \in SUBSET Nat
    BY <1>2, Levels
  <2>2. L[2] \in Nat
    BY <1>2, Levels
  <2>3. L[1] = i
    BY <2>1 DEF StreamOf
  <2>4. n' = n
    BY <1>1 DEF LocalStep
  <2> QED
    BY <2>1, <2>2, <2>3, <2>4
<1>4. PICK M : M[1] = i + 1 /\ \A j \in 1..m : j # 1 => M[j] = L[j]
  <2>1. \E M : With(m, L, 1, i + 1, M)
    BY <1>2, WithEx
  <2> QED
    BY <2>1 DEF With
<1>5. StreamOf(c, M, 1)'
  BY <1>1, <1>3, <1>4 DEF StreamOf
<1>6. ASSUME pc[c[2]] \in Reading
      PROVE  Flows(c, K, M, 2)'
  <2>1. Flows(c, K, L, 2)
    BY <1>2, <1>6 DEF Streams
  <2>2. Sent(c, L, 1) = i /\ Sent(c, M, 1)' = i + 1
    BY <1>1, <1>3, <1>4 DEF Sent
  <2>3. i \in Numbers(c, 2)
    BY <1>1, <1>3 DEF Numbers
  <2>4. u.pipe[K[2]] \in Seq(Nat)
    BY <1>2, UnixFields DEF TypeOK, Structure, HasPipes
  <2>5. Queue(u.pipe[K[2]], Numbers(c, 2), L[2], i)
    BY <2>1, <2>2 DEF Flows
  <2>6. Queue(Append(u.pipe[K[2]], i), Numbers(c, 2), L[2], i + 1)
    BY <1>3, <2>3, <2>4, <2>5, QueueAppend
  <2>7. Numbers(c, 2)' = Numbers(c, 2) /\ M[2] = L[2]
    BY <1>1, <1>2, <1>3, <1>4, NumbersSame
  <2> QED
    BY <1>1, <2>2, <2>6, <2>7 DEF Flows
<1>7. ASSUME NEW j \in 2..m, j # 2, pc[c[j]] \in Reading
      PROVE  u'.pipe[K[j]] = u.pipe[K[j]]
  BY <1>1, <1>2, <1>7, OtherPipe DEF Writing
<1>8. \A j \in 2..m : j # 1 /\ j # 1 + 1 /\ pc[c[j]] \in Reading => u'.pipe[K[j]] = u.pipe[K[j]]
  BY <1>7
<1>9. Streams(m, c, K, M)'
  <2>1. 1 < m /\ pc[c[1 + 1]] \in Reading => Flows(c, K, M, 1 + 1)'
    BY <1>6
  <2>2. (1 # m => recibido'[c[1]] = recibido[c[1]]) /\ (1 # 1 => i' = i)
    BY <1>1
  <2>3. 1 > 1 /\ pc'[c[1]] \in Reading => Flows(c, K, M, 1)'
    OBVIOUS
  <2> QED
    BY <1>1, <1>2, <1>4, <1>5, <1>8, <2>1, <2>2, <2>3, LocalStreams
<1> QED
  BY <1>9

LEMMA MainDoneStreams ==
    ASSUME TypeOK, NEW m, NEW c, NEW K, Structure(m, c, K), NEW L, Streams(m, c, K, L), MainDone
    PROVE  Streams(m, c, K, L)'
<1>1. /\ m > 1 /\ pc[c[1]] = "send" /\ LocalStep(c[1])
      /\ i > n /\ pc'[c[1]] = "wait"
      /\ u'.pipe = u.pipe /\ Quiet
  BY MainDoneEs
<1>2. m \in Nat /\ 1 \in 1..m /\ 2 \in 1..m /\ 2 \in 2..m /\ 2 - 1 = 1
  BY <1>1 DEF Structure, Chain
<1>3. StreamOf(c, L, 1) /\ n' = n
  BY <1>1, <1>2 DEF Streams, LocalStep
<1>4. StreamOf(c, L, 1)'
  BY <1>1, <1>3 DEF StreamOf, Quiet
<1>5. ASSUME pc[c[2]] \in Reading
      PROVE  Flows(c, K, L, 2)'
  <2>1. Flows(c, K, L, 2)
    BY <1>2, <1>5 DEF Streams
  <2>2. Sent(c, L, 1)' = Sent(c, L, 1)
    BY <1>1 DEF Sent
  <2>3. Numbers(c, 2)' = Numbers(c, 2)
    BY <1>1, <1>3, NumbersSame DEF Quiet
  <2> QED
    BY <1>1, <1>2, <2>1, <2>2, <2>3 DEF Flows
<1> QED
  BY <1>1, <1>2, <1>4, <1>5, LocalStreams DEF Quiet

LEMMA BornStreams ==
    ASSUME TypeOK, NEW m, NEW c, NEW K, Structure(m, c, K), NEW L, Streams(m, c, K, L),
           NEW p \in Procs, Born(p)
    PROVE  Streams(m, c, K, L)'
<1>1. /\ m > 1 /\ p = c[m] /\ pc[p] = "born" /\ LocalStep(c[m])
      /\ pc'[p] = "first"
      /\ u'.pipe = u.pipe /\ Quiet
  BY BornEs
<1>2. m \in Nat /\ m \in 1..m /\ m \in 2..m /\ m - 1 \in 1..m /\ m - 1 # m
  BY <1>1 DEF Structure, Chain
<1>3. StreamOf(c, L, m) /\ n' = n /\ Flows(c, K, L, m)
  BY <1>1, <1>2 DEF Streams, LocalStep, Reading
<1>4. StreamOf(c, L, m)'
  BY <1>1, <1>2, <1>3 DEF StreamOf, Quiet
<1>5. Flows(c, K, L, m)'
  BY <1>1, <1>2, <1>3, LocalOthers, FlowsSame DEF Quiet
<1> QED
  BY <1>1, <1>2, <1>4, <1>5, LocalStreams DEF Quiet

\* The number that is read is the least of those left.
LEMMA Taken ==
    ASSUME TypeOK, NEW m, NEW c, NEW K, Structure(m, c, K), NEW L, Streams(m, c, K, L),
           NEW k \in 2..m, pc[c[k]] \in Reading, u.pipe[K[k]] # <<>>, NEW v, v = Head(u.pipe[K[k]])
    PROVE  /\ v \in Nat /\ v \in Numbers(c, k) /\ L[k] <= v
           /\ \A w \in Numbers(c, k) : L[k] <= w => v <= w
           /\ Queue(Tail(u.pipe[K[k]]), Numbers(c, k), v + 1, Sent(c, L, k - 1))
<1>1. m \in Nat /\ k \in 1..m /\ k - 1 \in 1..m /\ k \in Nat /\ K[k] \in Pipes
  BY DEF Structure, Chain, HasPipes
<1>2. u.pipe[K[k]] \in Seq(Nat)
  BY <1>1, UnixFields DEF TypeOK
<1> DEFINE s == u.pipe[K[k]]
           N == Numbers(c, k)
           a == L[k]
           b == Sent(c, L, k - 1)
<1>3. Queue(s, N, a, b) /\ a \in Nat /\ b \in Nat /\ N \in SUBSET Nat /\ s \in Seq(Nat) /\ s # <<>> /\ v = Head(s)
  BY <1>1, <1>2, Levels DEF Streams, Flows
<1> HIDE DEF s, N, a, b
<1>4. /\ v \in N /\ a <= v /\ \A w \in N : a <= w => v <= w
      /\ Queue(Tail(s), N, v + 1, b)
  <2>1. /\ Head(s) \in N /\ a <= Head(s) /\ Head(s) < b
        /\ Queue(Tail(s), N, Head(s) + 1, b)
        /\ \A w \in N : a <= w => Head(s) <= w
    BY <1>3, QueueTake, Zenon
  <2> QED
    BY <1>3, <2>1, Zenon
<1>5. v \in Nat
  BY <1>3, <1>4
<1> QED
  BY <1>4, <1>5 DEF s, N, a, b

LEMMA FirstStreams ==
    ASSUME TypeOK, NEW m, NEW c, NEW K, Structure(m, c, K), NEW L, Streams(m, c, K, L),
           NEW p \in Procs, First(p)
    PROVE  \E M : Streams(m, c, K, M)'
<1>1. PICK v : v = Head(u.pipe[K[m]])
  OBVIOUS
<1>2. /\ m > 1 /\ p = c[m] /\ pc[p] = "first" /\ pc'[p] = "pipe" /\ LocalStep(c[m])
      /\ u.pipe[K[m]] # <<>> /\ u'.pipe[K[m]] = Tail(u.pipe[K[m]])
      /\ \A j \in Pipes \ {K[m]} : u'.pipe[j] = u.pipe[j]
      /\ recibido'[p] = v /\ i' = i
  BY <1>1, FirstEs
<1>3. m \in Nat /\ m \in 1..m /\ m \in 2..m /\ m - 1 \in 1..m /\ m - 1 # m /\ pc[c[m]] \in Reading
      /\ pc[c[m]] \in {"born", "first"} /\ m # 1
  BY <1>2 DEF Structure, Chain, Reading
<1>4. /\ v \in Nat /\ v \in Numbers(c, m) /\ L[m] <= v
      /\ \A w \in Numbers(c, m) : L[m] <= w => v <= w
      /\ Queue(Tail(u.pipe[K[m]]), Numbers(c, m), v + 1, Sent(c, L, m - 1))
  BY <1>1, <1>2, <1>3, Taken
<1>5. /\ L[m] = 2 /\ \A w \in Numbers(c, m) : w \in Nat /\ 2 <= w
  BY <1>2, <1>3, Levels DEF StreamOf
<1>6. PICK M : With(m, L, m, v + 1, M)
  BY <1>3, WithEx
<1>7. M[m] = v + 1 /\ \A j \in 1..m : j # m => M[j] = L[j]
  BY <1>6 DEF With
<1>8. \A j \in 1..m : j # m => /\ pc'[c[j]] = pc[c[j]] /\ recibido'[c[j]] = recibido[c[j]]
                               /\ numero'[c[j]] = numero[c[j]]
  BY <1>2, <1>3, LocalOthers
<1>9. n' = n /\ \A j \in 2..m - 1 : recibido'[c[j]] = recibido[c[j]]
  BY <1>2, <1>3, <1>8 DEF LocalStep
<1>10. Numbers(c, m)' = Numbers(c, m) /\ Sent(c, M, m - 1)' = Sent(c, L, m - 1)
  BY <1>3, <1>7, <1>8, <1>9, NumbersSame DEF Sent
<1>11. StreamOf(c, M, m)'
  <2>1. Sieves(c, M, m)'
    <3>1. recibido'[c[m]] = v /\ v < M[m]
      BY <1>2, <1>4, <1>7
    <3>2. \A w \in Numbers(c, m) : v <= w
      BY <1>4, <1>5
    <3> QED
      BY <1>4, <1>10, <3>1, <3>2 DEF Sieves
  <2>2. v + 1 >= 2 /\ v + 1 \in Nat
    BY <1>4, <1>5
  <2> QED
    BY <1>2, <1>3, <1>7, <2>1, <2>2 DEF StreamOf
<1>12. Flows(c, K, M, m)'
  BY <1>2, <1>4, <1>7, <1>10 DEF Flows
<1>13. \A j \in 2..m : j # m /\ j # m + 1 /\ pc[c[j]] \in Reading => u'.pipe[K[j]] = u.pipe[K[j]]
  BY <1>2, <1>3, OtherPipe
<1>14. Streams(m, c, K, M)'
  <2>1. (m < m /\ pc[c[m + 1]] \in Reading => Flows(c, K, M, m + 1)') /\ (m # m => recibido'[c[m]] = recibido[c[m]])
    BY <1>3
  <2> QED
    BY <1>2, <1>3, <1>7, <1>11, <1>12, <1>13, <2>1, LocalStreams
<1> QED
  BY <1>14

LEMMA ReadNextStreams ==
    ASSUME TypeOK, NEW m, NEW c, NEW K, Structure(m, c, K), NEW L, Streams(m, c, K, L),
           NEW p \in Procs, ReadNext(p)
    PROVE  \E M : Streams(m, c, K, M)'
<1>1. PICK k \in 2..m - 1 :
             /\ p = c[k] /\ pc[p] = "next" /\ LocalStep(c[k])
             /\ u.pipe[K[k]] # <<>> /\ u'.pipe[K[k]] = Tail(u.pipe[K[k]])
             /\ \A j \in Pipes \ {K[k]} : u'.pipe[j] = u.pipe[j]
             /\ LET v == Head(u.pipe[K[k]])
                IN  \/ v % recibido[p] # 0 /\ pc'[p] = "pass" /\ numero' = [numero EXCEPT ![p] = v] /\ numero'[p] = v
                    \/ v % recibido[p] = 0 /\ pc' = pc /\ numero' = numero
             /\ UNCHANGED <<recibido, i, stdout, output>>
  BY ReadNextEs
<1>2. PICK v : v = Head(u.pipe[K[k]])
  OBVIOUS
<1>3. /\ m \in Nat /\ k \in Nat /\ k \in 1..m /\ k \in 2..m /\ k - 1 \in 1..m /\ k + 1 \in 1..m
      /\ k + 1 \in 2..m /\ (k + 1) - 1 = k /\ k # 1 /\ k + 1 # k /\ k - 1 # k /\ pc[c[k]] \in Reading
  BY <1>1 DEF Structure, Chain, Reading
<1>4. /\ v \in Nat /\ v \in Numbers(c, k) /\ L[k] <= v
      /\ \A w \in Numbers(c, k) : L[k] <= w => v <= w
      /\ Queue(Tail(u.pipe[K[k]]), Numbers(c, k), v + 1, Sent(c, L, k - 1))
  BY <1>1, <1>2, <1>3, Taken
<1>5. /\ L[k] \in Nat /\ L[k] >= 2 /\ L[k + 1] \in Nat
      /\ \A j \in Nat : Numbers(c, j) \in SUBSET Nat
      /\ \A w \in Numbers(c, k) : w \in Nat /\ 2 <= w
      /\ StreamOf(c, L, k)
  BY <1>3, Levels
<1>6. PICK M : With(m, L, k, v + 1, M)
  BY <1>3, WithEx
<1>7. M[k] = v + 1 /\ \A j \in 1..m : j # k => M[j] = L[j]
  BY <1>6 DEF With
<1>8. \A j \in 1..m : j # k => /\ pc'[c[j]] = pc[c[j]] /\ numero'[c[j]] = numero[c[j]]
  BY <1>1, <1>3, LocalOthers
<1>9. n' = n /\ recibido' = recibido /\ i' = i
  BY <1>1 DEF LocalStep
<1>10. \A j \in Nat : Numbers(c, j)' = Numbers(c, j)
  BY <1>9, NumbersSame
<1>11. Numbers(c, k + 1) = {w \in Numbers(c, k) : w % recibido[c[k]] # 0}
  BY <1>3, NumbersNext
<1>12. /\ pc'[c[k]] \in {"next", "pass"}
       /\ pc'[c[k]] = "pass" => v % recibido[c[k]] # 0 /\ numero'[c[k]] = v
       /\ pc'[c[k]] = "next" => v % recibido[c[k]] = 0
  BY <1>1, <1>2
<1>13. StreamOf(c, M, k)'
  <2>1. Sieves(c, L, k)
    BY <1>1, <1>3, <1>5 DEF StreamOf
  <2>2. recibido[c[k]] < v + 1
    <3>1. recibido[c[k]] \in Nat
      BY <1>5, <2>1 DEF Sieves
    <3> QED
      BY <1>4, <1>5, <2>1, <3>1 DEF Sieves
  <2>3. Sieves(c, M, k)'
    BY <1>3, <1>7, <1>9, <1>10, <2>1, <2>2 DEF Sieves
  <2>4. v + 1 >= 2 /\ v + 1 \in Nat
    BY <1>4, <1>5
  <2>5. pc'[c[k]] = "pass" => numero'[c[k]] \in Numbers(c, k + 1)' /\ M[k] = numero'[c[k]] + 1
    BY <1>3, <1>4, <1>7, <1>10, <1>11, <1>12
  <2> QED
    BY <1>3, <1>7, <1>12, <2>3, <2>4, <2>5 DEF StreamOf
<1>14. Flows(c, K, M, k)'
  <2>1. Sent(c, M, k - 1)' = Sent(c, L, k - 1)
    BY <1>3, <1>7, <1>8 DEF Sent
  <2> QED
    BY <1>1, <1>3, <1>4, <1>7, <1>10, <2>1 DEF Flows
<1>15. ASSUME pc[c[k + 1]] \in Reading
       PROVE  Flows(c, K, M, k + 1)'
  <2> DEFINE s == u.pipe[K[k + 1]]
             N == Numbers(c, k + 1)
             a == L[k + 1]
             b == L[k]
  <2>1. Queue(s, N, a, b)
    <3>1. Flows(c, K, L, k + 1) /\ Sent(c, L, k) = L[k]
      BY <1>1, <1>3, <1>15 DEF Streams, Sent
    <3> QED
      BY <1>3, <3>1 DEF Flows
  <2>2. u'.pipe[K[k + 1]] = s
    <3>1. K[k + 1] \in Pipes \ {K[k]}
      BY <1>3, <1>15, OtherPipe
    <3> QED
      BY <1>1, <3>1
  <2>3. PICK d : d = Sent(c, M, k)'
    OBVIOUS
  <2>4. d \in Nat /\ b <= d /\ \A w \in N : ~(b <= w /\ w < d)
    <3>1. \A w \in N : w \in Numbers(c, k) /\ w \in Nat /\ w % recibido[c[k]] # 0
      BY <1>5, <1>11
    <3>2. CASE pc'[c[k]] = "pass"
      <4>1. d = v
        BY <1>12, <2>3, <3>2 DEF Sent
      <4> QED
        BY <1>4, <1>5, <3>1, <4>1
    <3>3. CASE pc'[c[k]] = "next"
      <4>1. d = v + 1
        BY <1>7, <2>3, <3>3 DEF Sent
      <4>2. \A w \in N : w # v
        BY <1>12, <3>1, <3>3
      <4> QED
        BY <1>4, <1>5, <3>1, <4>1, <4>2
    <3> QED
      BY <1>12, <3>2, <3>3
  <2>5. N \in SUBSET Nat /\ a \in Nat /\ b \in Nat
    BY <1>3, <1>5
  <2>6. N' = N /\ M[k + 1] = a
    BY <1>3, <1>7, <1>10
  <2> HIDE DEF s, N, a, b
  <2>7. Queue(s, N, a, d)
    BY <2>1, <2>4, <2>5, QueueShift
  <2>8. Queue(u'.pipe[K[k + 1]], Numbers(c, k + 1)', M[k + 1], Sent(c, M, k)')
    BY <2>2, <2>3, <2>6, <2>7 DEF N
  <2> QED
    BY <1>3, <2>8 DEF Flows
<1>16. \A j \in 2..m : j # k /\ j # k + 1 /\ pc[c[j]] \in Reading => u'.pipe[K[j]] = u.pipe[K[j]]
  BY <1>1, <1>3, OtherPipe
<1>17. Streams(m, c, K, M)'
  BY <1>1, <1>3, <1>7, <1>9, <1>13, <1>14, <1>15, <1>16, LocalStreams
<1> QED
  BY <1>17

LEMMA PassStreams ==
    ASSUME TypeOK, NEW m, NEW c, NEW K, Structure(m, c, K), NEW L, Streams(m, c, K, L),
           NEW p \in Procs, Pass(p)
    PROVE  Streams(m, c, K, L)'
<1>1. PICK k \in 2..m - 1 :
             /\ p = c[k] /\ pc[p] = "pass" /\ LocalStep(c[k]) /\ pc'[p] = "next"
             /\ u.pipe[K[k + 1]] \in Seq(Nat)
             /\ u'.pipe[K[k + 1]] = Append(u.pipe[K[k + 1]], numero[p])
             /\ \A j \in Pipes \ {K[k + 1]} : u'.pipe[j] = u.pipe[j]
             /\ UNCHANGED <<recibido, i, stdout, output>>
  BY PassEs
<1>2. /\ m \in Nat /\ k \in Nat /\ k \in 1..m /\ k \in 2..m /\ k - 1 \in 1..m /\ k + 1 \in 1..m
      /\ k + 1 \in 2..m /\ (k + 1) - 1 = k /\ k # 1 /\ k + 1 # k /\ k - 1 # k
      /\ pc[c[k]] \in Reading /\ pc[c[k]] \in Writing
  BY <1>1 DEF Structure, Chain, Reading, Writing
<1>3. /\ L[k] \in Nat /\ L[k] >= 2 /\ L[k + 1] \in Nat /\ StreamOf(c, L, k)
      /\ \A j \in Nat : Numbers(c, j) \in SUBSET Nat
  BY <1>2, Levels
<1>4. \A j \in 1..m : j # k => /\ pc'[c[j]] = pc[c[j]] /\ numero'[c[j]] = numero[c[j]]
  BY <1>1, <1>2, LocalOthers
<1>5. n' = n /\ recibido' = recibido /\ i' = i
  BY <1>1 DEF LocalStep
<1>6. \A j \in Nat : Numbers(c, j)' = Numbers(c, j)
  BY <1>5, NumbersSame
<1>7. numero[c[k]] \in Numbers(c, k + 1) /\ L[k] = numero[c[k]] + 1 /\ Sieves(c, L, k)
  BY <1>1, <1>2, <1>3 DEF StreamOf
<1>8. StreamOf(c, L, k)'
  <2>1. Sieves(c, L, k)'
    BY <1>2, <1>5, <1>6, <1>7 DEF Sieves
  <2> QED
    BY <1>1, <1>2, <1>3, <2>1 DEF StreamOf
<1>9. Flows(c, K, L, k)'
  <2>1. K[k] \in Pipes \ {K[k + 1]}
    BY <1>2, OtherPipe
  <2>2. Flows(c, K, L, k) /\ u'.pipe[K[k]] = u.pipe[K[k]]
    BY <1>1, <1>2, <2>1 DEF Streams
  <2>3. Sent(c, L, k - 1)' = Sent(c, L, k - 1)
    BY <1>2, <1>4 DEF Sent
  <2> QED
    BY <1>2, <1>6, <2>2, <2>3 DEF Flows
<1>10. ASSUME pc[c[k + 1]] \in Reading
       PROVE  Flows(c, K, L, k + 1)'
  <2> DEFINE s == u.pipe[K[k + 1]]
             N == Numbers(c, k + 1)
             a == L[k + 1]
  <2>1. PICK v : v = numero[c[k]]
    OBVIOUS
  <2>2. Queue(s, N, a, v)
    <3>1. Flows(c, K, L, k + 1) /\ Sent(c, L, k) = v
      BY <1>1, <1>2, <1>10, <2>1 DEF Streams, Sent
    <3> QED
      BY <1>2, <3>1 DEF Flows
  <2>3. v \in N /\ N \in SUBSET Nat /\ a \in Nat /\ v \in Nat /\ s \in Seq(Nat)
    BY <1>1, <1>2, <1>3, <1>7, <2>1
  <2>4. N' = N /\ Sent(c, L, k)' = v + 1 /\ u'.pipe[K[k + 1]] = Append(s, v)
    BY <1>1, <1>2, <1>6, <1>7, <2>1 DEF Sent
  <2> HIDE DEF s, N, a
  <2>5. Queue(Append(s, v), N, a, v + 1)
    BY <2>2, <2>3, QueueAppend
  <2>6. Queue(u'.pipe[K[k + 1]], Numbers(c, k + 1)', L[k + 1], Sent(c, L, k)')
    BY <2>4, <2>5 DEF N, a
  <2> QED
    BY <1>2, <2>6 DEF Flows
<1>11. \A j \in 2..m : j # k /\ j # k + 1 /\ pc[c[j]] \in Reading => u'.pipe[K[j]] = u.pipe[K[j]]
  <2> SUFFICES ASSUME NEW j \in 2..m, j # k + 1, pc[c[j]] \in Reading
               PROVE  u'.pipe[K[j]] = u.pipe[K[j]]
    OBVIOUS
  <2>1. K[j] \in Pipes \ {K[k + 1]}
    BY <1>2, OtherPipe
  <2> QED
    BY <1>1, <2>1
<1> QED
  BY <1>1, <1>2, <1>5, <1>8, <1>9, <1>10, <1>11, LocalStreams

\* At the end of its pipe a filter has read all there is.
LEMMA NextEofStreams ==
    ASSUME TypeOK, NEW m, NEW c, NEW K, Structure(m, c, K), NEW L, Streams(m, c, K, L),
           NEW p \in Procs, NextEof(p)
    PROVE  \E M : Streams(m, c, K, M)'
<1>1. PICK k \in 2..m - 1 :
             /\ p = c[k] /\ pc[p] = "next" /\ LocalStep(c[k])
             /\ pc'[p] = "wait" /\ pc[c[k - 1]] = "wait"
             /\ u.pipe[K[k]] = <<>> /\ u'.pipe = u.pipe /\ Quiet
  BY NextEofEs
<1>2. /\ m \in Nat /\ k \in Nat /\ k \in 1..m /\ k \in 2..m /\ k - 1 \in 1..m /\ k + 1 \in 1..m
      /\ k + 1 \in 2..m /\ (k + 1) - 1 = k /\ k # 1 /\ k + 1 # k /\ k - 1 # k
      /\ pc[c[k]] \in Reading
  BY <1>1 DEF Structure, Chain, Reading
<1>3. /\ L[k] \in Nat /\ L[k] >= 2 /\ L[k + 1] \in Nat /\ StreamOf(c, L, k) /\ n \in Nat
      /\ \A j \in Nat : Numbers(c, j) \in SUBSET Nat
      /\ \A w \in Numbers(c, k) : w \in Nat
      /\ L[k - 1] \in Nat
  BY <1>2, Levels
<1>4. L[k - 1] > n /\ Sent(c, L, k - 1) = L[k - 1]
  <2>1. StreamOf(c, L, k - 1)
    BY <1>2, Levels
  <2> QED
    BY <1>1, <2>1 DEF StreamOf, Sent
<1>5. L[k] <= L[k - 1] /\ \A w \in Numbers(c, k) : ~(L[k] <= w /\ w < L[k - 1])
  <2>1. Queue(<<>>, Numbers(c, k), L[k], L[k - 1])
    BY <1>1, <1>2, <1>4 DEF Streams, Flows
  <2>2. Elems(<<>>) = {}
    BY DEF Elems
  <2> QED
    BY <2>1, <2>2 DEF Queue
<1>6. PICK M : With(m, L, k, L[k - 1], M)
  BY <1>2, WithEx
<1>7. M[k] = L[k - 1] /\ \A j \in 1..m : j # k => M[j] = L[j]
  BY <1>6 DEF With
<1>8. n' = n /\ recibido' = recibido /\ i' = i
  BY <1>1 DEF LocalStep, Quiet
<1>9. \A j \in Nat : Numbers(c, j)' = Numbers(c, j)
  BY <1>8, NumbersSame
<1>10. StreamOf(c, M, k)'
  <2>1. Sieves(c, L, k)
    BY <1>1, <1>2, <1>3 DEF StreamOf
  <2>2. recibido[c[k]] < L[k - 1]
    <3>1. recibido[c[k]] \in Nat
      BY <1>3, <2>1 DEF Sieves
    <3> QED
      BY <1>3, <1>5, <2>1, <3>1 DEF Sieves
  <2>3. Sieves(c, M, k)'
    BY <1>2, <1>7, <1>8, <1>9, <2>1, <2>2 DEF Sieves
  <2>4. L[k - 1] >= 2
    BY <1>3, <1>5
  <2> QED
    BY <1>1, <1>2, <1>3, <1>4, <1>7, <1>8, <2>3, <2>4 DEF StreamOf
<1>11. ASSUME pc[c[k + 1]] \in Reading
       PROVE  Flows(c, K, M, k + 1)'
  <2> DEFINE s == u.pipe[K[k + 1]]
             N == Numbers(c, k + 1)
             a == L[k + 1]
             b == L[k]
             d == L[k - 1]
  <2>1. Queue(s, N, a, b)
    <3>1. Flows(c, K, L, k + 1) /\ Sent(c, L, k) = L[k]
      BY <1>1, <1>2, <1>11 DEF Streams, Sent
    <3> QED
      BY <1>2, <3>1 DEF Flows
  <2>2. b <= d /\ \A w \in N : ~(b <= w /\ w < d)
    <3>1. \A w \in N : w \in Numbers(c, k)
      BY <1>2, NumbersNext
    <3> QED
      BY <1>5, <3>1
  <2>3. N \in SUBSET Nat /\ a \in Nat /\ b \in Nat /\ d \in Nat
    BY <1>2, <1>3
  <2>4. N' = N /\ M[k + 1] = a /\ Sent(c, M, k)' = d /\ u'.pipe[K[k + 1]] = s
    BY <1>1, <1>2, <1>7, <1>9 DEF Sent
  <2> HIDE DEF s, N, a, b, d
  <2>5. Queue(s, N, a, d)
    BY <2>1, <2>2, <2>3, QueueShift
  <2>6. Queue(u'.pipe[K[k + 1]], Numbers(c, k + 1)', M[k + 1], Sent(c, M, k)')
    BY <2>4, <2>5 DEF N
  <2> QED
    BY <1>2, <2>6 DEF Flows
<1>12. Streams(m, c, K, M)'
  <2>1. pc'[c[k]] \notin Reading
    BY <1>1 DEF Reading
  <2> QED
    BY <1>1, <1>2, <1>7, <1>8, <1>10, <1>11, <2>1, LocalStreams
<1> QED
  BY <1>12

LEMMA GrowsStreams ==
    ASSUME TypeOK, NEW m, NEW c, NEW K, Structure(m, c, K), NEW L, Streams(m, c, K, L),
           NEW b, NEW k, Grows(m, c, K, b, k),
           NEW d, Extends(m, c, d, b), NEW E, Extends(m, K, E, k), NEW M, Extends(m, L, M, 2)
    PROVE  Streams(m + 1, d, E, M)'
<1>1. /\ m \in Nat \ {0} /\ b \in Procs /\ k \in Pipes /\ Unheld(u, k)
      /\ c[m] \in Procs /\ c[m] # b /\ Nothing(b)
      /\ d[m + 1] = b /\ E[m + 1] = k /\ M[m + 1] = 2
      /\ \A j \in 1..m : d[j] = c[j] /\ E[j] = K[j] /\ M[j] = L[j]
      /\ \A j \in 1..m - 1 : pc'[c[j]] = pc[c[j]]
      /\ pc'[c[m]] = IF m = 1 THEN "send" ELSE "next"
      /\ pc[c[m]] = IF m = 1 THEN "main" ELSE "pipe"
      /\ pc'[b] = "born"
  BY GrowsEs DEF Extends
<1>2. /\ u'.pipe[k] = <<>> /\ \A j \in Pipes \ {k} : u'.pipe[j] = u.pipe[j]
      /\ UNCHANGED <<n, i, recibido, numero>>
  BY DEF Grows, ForkStep
<1>3. /\ m \in 1..m /\ m \in Nat /\ m + 1 \in Nat /\ (m + 1) - 1 = m /\ m + 1 > 1
      /\ \A j \in 2..m : j \in 1..m /\ j - 1 \in 1..m /\ j \in Nat
  BY <1>1
<1>4. /\ StreamOf(c, L, m) /\ L[m] \in Nat /\ L[m] >= 2
      /\ \A j \in Nat : Numbers(c, j) \in SUBSET Nat
      /\ \A w \in Numbers(c, m) : w \in Nat /\ 2 <= w
  BY <1>3, Levels
<1>5. \A j \in Nat : j <= m + 1 => Numbers(d, j)' = Numbers(c, j)
  <2> SUFFICES ASSUME NEW j \in Nat, j <= m + 1
               PROVE  Numbers(d, j)' = Numbers(c, j)
    OBVIOUS
  <2>1. \A x \in 2..j - 1 : d[x] = c[x]
    BY <1>1
  <2> QED
    BY <1>2, <2>1, NumbersSame
<1>6. ASSUME NEW j \in 1..m - 1
      PROVE  StreamOf(d, M, j)'
  <2>1. j \in 1..m /\ j \in Nat \ {0} /\ \A x \in 2..j : d[x] = c[x]
    BY <1>1
  <2>2. StreamOf(c, L, j)
    BY <2>1, Levels
  <2> QED
    BY <1>1, <1>2, <2>1, <2>2, StreamSame
<1>7. StreamOf(d, M, m)'
  <2>1. CASE m = 1
    BY <1>1, <1>2, <1>4, <2>1 DEF StreamOf
  <2>2. CASE m > 1
    <3>1. Sieves(c, L, m) /\ d[m] = c[m] /\ M[m] = L[m]
      BY <1>1, <1>3, <1>4, <2>2 DEF StreamOf
    <3>2. Sieves(d, M, m)'
      BY <1>2, <1>3, <1>5, <3>1 DEF Sieves
    <3> QED
      BY <1>1, <1>4, <2>2, <3>1, <3>2 DEF StreamOf
  <2> QED
    BY <1>1, <2>1, <2>2
<1>8. StreamOf(d, M, m + 1)'
  <2>1. recibido'[b] = 0
    BY <1>1, <1>2 DEF Nothing
  <2> QED
    BY <1>1, <1>3, <2>1 DEF StreamOf
<1>9. ASSUME NEW j \in 2..m, pc'[d[j]] \in Reading
      PROVE  Flows(d, E, M, j)'
  <2>1. pc[c[j]] \in Reading
    BY <1>1, <1>3, <1>9 DEF Reading
  <2>2. K[j] \in Pipes /\ K[j] # k
    <3>1. Used(m, c, j)
      BY <2>1 DEF Used
    <3> QED
      BY <1>1, <3>1, UsedIsHeld DEF Structure, HasPipes
  <2>3. Flows(c, K, L, j) /\ u'.pipe[E[j]] = u.pipe[K[j]]
    BY <1>1, <1>2, <1>3, <2>1, <2>2 DEF Streams
  <2>4. j - 1 \in 1..m - 1 /\ \A x \in 2..j - 1 : d[x] = c[x]
    BY <1>1
  <2>5. d[j - 1] = c[j - 1] /\ M[j] = L[j] /\ M[j - 1] = L[j - 1] /\ pc'[d[j - 1]] = pc[c[j - 1]] /\ j \in Nat
    BY <1>1, <1>3, <2>4
  <2> QED
    BY <1>2, <2>3, <2>4, <2>5, FlowsSame
<1>10. Flows(d, E, M, m + 1)'
  <2>1. Sent(d, M, m)' = L[m]
    BY <1>1, <1>3 DEF Sent
  <2>2. \A v \in Numbers(c, m + 1) : ~(2 <= v /\ v < L[m])
    <3>1. CASE m = 1
      <4>1. L[m] = 2
        BY <1>1, <1>4, <3>1 DEF StreamOf
      <4>2. \A v \in Numbers(c, m + 1) : v \in Nat
        BY <1>3, <1>4
      <4> QED
        BY <4>1, <4>2
    <3>2. CASE m > 1
      <4>1. PICK r : r = recibido[c[m]]
        OBVIOUS
      <4>2. L[m] = r + 1 /\ r \in Numbers(c, m) /\ \A v \in Numbers(c, m) : r <= v
        BY <1>1, <1>4, <3>2, <4>1 DEF StreamOf, Sieves
      <4>3. r \in Nat \ {0} /\ r % r = 0
        BY <1>4, <4>2
      <4>4. Numbers(c, m + 1) = {v \in Numbers(c, m) : v % r # 0}
        BY <1>3, <3>2, <4>1, NumbersNext
      <4> QED
        BY <1>4, <4>2, <4>3, <4>4
    <3> QED
      BY <1>1, <3>1, <3>2
  <2>3. Elems(<<>>) = {} /\ Increasing(<<>>)
    BY DEF Elems, Increasing
  <2>4. Queue(<<>>, Numbers(c, m + 1), 2, L[m])
    BY <1>4, <2>2, <2>3 DEF Queue
  <2>5. Numbers(d, m + 1)' = Numbers(c, m + 1)
    BY <1>3, <1>5
  <2> QED
    BY <1>1, <1>2, <1>3, <2>1, <2>4, <2>5 DEF Flows
<1>11. ASSUME NEW j \in 1..m + 1
       PROVE  StreamOf(d, M, j)'
  BY <1>1, <1>6, <1>7, <1>8
<1>12. ASSUME NEW j \in 2..m + 1, pc'[d[j]] \in Reading
       PROVE  Flows(d, E, M, j)'
  BY <1>1, <1>9, <1>10, <1>12
<1> QED
  BY <1>11, <1>12 DEF Streams

LEMMA EndsStreams ==
    ASSUME TypeOK, NEW m, NEW c, NEW K, Structure(m, c, K), NEW L, Streams(m, c, K, L),
           NEW k \in 1..m, Last(m, c, k), EndStep(m, c, k)
    PROVE  Streams(k, c, K, L)' /\ Streams(0, c, K, L)'
<1>1. m \in Nat /\ k \in Nat /\ n' = n /\ i' = i /\ u'.pipe = u.pipe
  BY LastEs DEF EndStep, Leaves
<1>2. \A j \in 1..m : j # k => /\ pc'[c[j]] = pc[c[j]] /\ recibido'[c[j]] = recibido[c[j]]
                               /\ numero'[c[j]] = numero[c[j]]
  BY EndStepOthers
<1>3. pc'[c[k]] = "ended"
  BY DEF EndStep
<1>4. ASSUME NEW j \in 1..k
      PROVE  StreamOf(c, L, j)'
  <2>1. StreamOf(c, L, j) /\ j \in 1..m /\ j \in Nat \ {0}
    BY <1>1, Levels
  <2>2. CASE j = k
    BY <1>1, <1>3, <2>1, <2>2 DEF StreamOf
  <2>3. CASE j # k
    <3>1. recibido'[c[j]] = recibido[c[j]] /\ \A x \in 2..j : recibido'[c[x]] = recibido[c[x]]
      BY <1>1, <1>2, <2>1, <2>3
    <3> QED
      BY <1>1, <1>2, <2>1, <2>3, <3>1, StreamSame
  <2> QED
    BY <2>2, <2>3
<1>5. ASSUME NEW j \in 2..k, pc'[c[j]] \in Reading
      PROVE  Flows(c, K, L, j)'
  <2>1. j # k
    BY <1>3, <1>5 DEF Reading
  <2>2. j \in Nat /\ j \in 1..m /\ j \in 2..m /\ j - 1 \in 1..m /\ j - 1 # k
        /\ \A x \in 2..j - 1 : x \in 1..m /\ x # k
    BY <1>1, <2>1
  <2>3. Flows(c, K, L, j)
    BY <1>2, <1>5, <2>1, <2>2 DEF Streams
  <2> QED
    BY <1>1, <1>2, <2>2, <2>3, FlowsSame
<1>6. Streams(k, c, K, L)'
  BY <1>4, <1>5 DEF Streams
<1>7. Streams(0, c, K, L)'
  BY DEF Streams
<1> QED
  BY <1>6, <1>7

-----------------------------------------------------------------------------
(***************************************************************************)
(* Each step keeps the types.                                              *)
(***************************************************************************)

LEMMA EndedType ==
    ASSUME TypeOK, NEW p \in Procs, NEW x, NEW w \in BOOLEAN, Ended(p, x, w), u' \in UnixType,
           failed' \in BOOLEAN
    PROVE  TypeOK'
<1>1. stdout[p] \in Seq(2..MaxN) /\ output \in Seq(2..MaxN)
  BY DEF TypeOK
<1>2. output \o stdout[p] \in Seq(2..MaxN) /\ <<>> \in Seq(2..MaxN)
  BY <1>1
<1>3. output' \in Seq(2..MaxN) /\ stdout' \in [Procs -> Seq(2..MaxN)]
  BY <1>1, <1>2 DEF Ended, TypeOK
<1>4. /\ recibido' \in [Procs -> 0..MaxN] /\ numero' \in [Procs -> 0..MaxN]
      /\ pid' \in [Procs -> Procs \cup {InitProc}]
  BY MaxNAssumption DEF Ended, TypeOK
<1>5. pc' \in [Procs -> {"main", "send", "born", "first", "pipe", "next", "pass", "wait", "ended"}]
  BY DEF Ended, Goto, TypeOK
<1> QED
  BY <1>3, <1>4, <1>5 DEF Ended, TypeOK

LEMMA ForkedType ==
    ASSUME TypeOK, NEW p \in Procs, NEW x, NEW r, NEW l \in {"send", "next"}, Forked(p, x, r, l),
           FreeProc(x) \in Procs, u' \in UnixType
    PROVE  TypeOK'
<1> DEFINE b == FreeProc(x)
<1>1. /\ pc' = [pc EXCEPT ![p] = l, ![b] = "born"]
      /\ pid' = [pid EXCEPT ![p] = b]
      /\ stdout' = [stdout EXCEPT ![b] = stdout[p]]
      /\ UNCHANGED <<n, tty, i, recibido, numero, output, failed>>
      /\ b \in Procs
  BY DEF Forked
<1> HIDE DEF b
<1>2. pc' \in [Procs -> {"main", "send", "born", "first", "pipe", "next", "pass", "wait", "ended"}]
  BY <1>1 DEF TypeOK
<1>3. pid' \in [Procs -> Procs \cup {InitProc}] /\ stdout' \in [Procs -> Seq(2..MaxN)]
  BY <1>1 DEF TypeOK
<1> QED
  BY <1>1, <1>2, <1>3 DEF TypeOK

LEMMA GotoType ==
    ASSUME TypeOK, NEW p \in Procs, NEW l \in {"first", "pipe", "next", "pass", "wait"}, Goto(p, l)
    PROVE  pc' \in [Procs -> {"main", "send", "born", "first", "pipe", "next", "pass", "wait", "ended"}]
  BY DEF Goto, TypeOK

LEMMA FirstType ==
    ASSUME TypeOK, NEW m, NEW c, NEW K, Structure(m, c, K), NEW L, Streams(m, c, K, L),
           NEW p \in Procs, First(p)
    PROVE  TypeOK'
<1>1. PICK v : v = Head(u.pipe[K[m]])
  OBVIOUS
<1>2. /\ m > 1 /\ p = c[m] /\ pc[p] = "first" /\ u.pipe[K[m]] # <<>> /\ u' \in UnixType
      /\ recibido' = [recibido EXCEPT ![p] = v]
      /\ tty => output' = Append(output, v) /\ stdout' = stdout
      /\ ~tty => output' = output /\ stdout' = [stdout EXCEPT ![p] = Append(stdout[p], v)]
      /\ UNCHANGED <<n, tty, i, numero, pid, failed>>
  BY <1>1, FirstEs
<1>3. m \in Nat /\ m \in 2..m /\ pc[c[m]] \in Reading
  BY <1>2 DEF Structure, Chain, Reading
<1>4. v \in Numbers(c, m)
  BY <1>1, <1>2, <1>3, Taken
<1>5. v \in 2..MaxN /\ v \in 0..MaxN
  BY <1>4, MaxNAssumption DEF Numbers, TypeOK
<1>6. stdout[p] \in Seq(2..MaxN) /\ output \in Seq(2..MaxN) /\ tty \in BOOLEAN
  BY DEF TypeOK
<1>7. Append(stdout[p], v) \in Seq(2..MaxN) /\ Append(output, v) \in Seq(2..MaxN)
  BY <1>5, <1>6
<1>8. output' \in Seq(2..MaxN) /\ stdout' \in [Procs -> Seq(2..MaxN)]
  BY <1>2, <1>6, <1>7 DEF TypeOK
<1>9. recibido' \in [Procs -> 0..MaxN]
  BY <1>2, <1>5 DEF TypeOK
<1>10. pc' \in [Procs -> {"main", "send", "born", "first", "pipe", "next", "pass", "wait", "ended"}]
  BY GotoType DEF First
<1> QED
  BY <1>2, <1>8, <1>9, <1>10 DEF TypeOK

LEMMA ReadNextType ==
    ASSUME TypeOK, NEW m, NEW c, NEW K, Structure(m, c, K), NEW L, Streams(m, c, K, L),
           NEW p \in Procs, ReadNext(p)
    PROVE  TypeOK'
<1>1. PICK k \in 2..m - 1 :
             /\ p = c[k] /\ pc[p] = "next" /\ LocalStep(c[k])
             /\ u.pipe[K[k]] # <<>>
             /\ LET v == Head(u.pipe[K[k]])
                IN  \/ v % recibido[p] # 0 /\ pc'[p] = "pass" /\ numero' = [numero EXCEPT ![p] = v] /\ numero'[p] = v
                    \/ v % recibido[p] = 0 /\ pc' = pc /\ numero' = numero
             /\ UNCHANGED <<recibido, i, stdout, output>>
  BY ReadNextEs
<1>2. PICK v : v = Head(u.pipe[K[k]])
  OBVIOUS
<1>3. k \in 2..m /\ pc[c[k]] \in Reading
  BY <1>1 DEF Structure, Chain, Reading
<1>4. v \in Numbers(c, k)
  BY <1>1, <1>2, <1>3, Taken
<1>5. v \in 0..MaxN
  BY <1>4, MaxNAssumption DEF Numbers, TypeOK
<1>6. numero' \in [Procs -> 0..MaxN]
  BY <1>1, <1>2, <1>5 DEF TypeOK
<1>7. Goto(p, "pass") \/ pc' = pc
  BY DEF ReadNext
<1>8. pc' \in [Procs -> {"main", "send", "born", "first", "pipe", "next", "pass", "wait", "ended"}]
  BY <1>7, GotoType DEF TypeOK
<1> QED
  BY <1>1, <1>6, <1>8 DEF TypeOK, LocalStep

LEMMA NextType ==
    ASSUME TypeOK, NEW m, NEW c, NEW K, Structure(m, c, K), NEW L, Streams(m, c, K, L), Next
    PROVE  TypeOK'
<1>1. CASE MainPipe
  <2>1. FreePipe(u) \in Pipes /\ u' \in UnixType /\ Main \in Procs
    BY <1>1, MainPipeEs, MainAssumption DEF Grows, ForkStep
  <2>2. FreeProc(Pipe(u, Main, "padre0", "padre1")) \in Procs
    <3>1. u \in UnixType /\ Running(u, Main) /\ CanFork(u) /\ CanPipe(u)
      BY <1>1 DEF MainPipe, At, TypeOK
    <3>2. FreeProc(Pipe(u, Main, "padre0", "padre1")) = FreeProc(u)
      BY <2>1, <3>1, FdsAssumption, BranchEs DEF Running
    <3> QED
      BY <3>1, <3>2, FreeProcEs
  <2> QED
    BY <1>1, <2>1, <2>2, ForkedType DEF MainPipe
<1>2. CASE MainFails
  <2>1. u' \in UnixType /\ failed' = TRUE /\ Main \in Procs
    BY <1>2, MainFailsEs, MainAssumption DEF EndStep, Leaves
  <2> QED
    BY <1>2, <2>1, EndedType DEF MainFails, Failed
<1>3. CASE MainSend
  <2>1. /\ LocalStep(c[1]) /\ i <= n /\ i' = i + 1 /\ pc' = pc
        /\ UNCHANGED <<recibido, numero, stdout, output>>
    BY <1>3, MainSendEs
  <2> QED
    BY <2>1, MaxNAssumption DEF LocalStep, TypeOK
<1>4. CASE MainDone
  <2>1. LocalStep(c[1]) /\ Quiet
    BY <1>4, MainDoneEs
  <2>2. pc' \in [Procs -> {"main", "send", "born", "first", "pipe", "next", "pass", "wait", "ended"}]
    BY <1>4, MainAssumption, GotoType DEF MainDone
  <2> QED
    BY <2>1, <2>2 DEF LocalStep, Quiet, TypeOK
<1>5. ASSUME NEW p \in Procs, Born(p)
      PROVE  TypeOK'
  <2>1. LocalStep(c[m]) /\ Quiet
    BY <1>5, BornEs
  <2>2. pc' \in [Procs -> {"main", "send", "born", "first", "pipe", "next", "pass", "wait", "ended"}]
    BY <1>5, GotoType DEF Born
  <2> QED
    BY <2>1, <2>2 DEF LocalStep, Quiet, TypeOK
<1>6. ASSUME NEW p \in Procs, First(p)
      PROVE  TypeOK'
  BY <1>6, FirstType
<1>7. ASSUME NEW p \in Procs, FirstEof(p)
      PROVE  TypeOK'
  <2>1. u' \in UnixType /\ failed' \in BOOLEAN
    BY <1>7, FirstEofEs DEF EndStep, Leaves, TypeOK
  <2> QED
    BY <1>7, <2>1, EndedType DEF FirstEof
<1>8. ASSUME NEW p \in Procs, NewFilter(p)
      PROVE  TypeOK'
  <2>1. u' \in UnixType
    BY <1>8, NewFilterEs DEF Grows, ForkStep
  <2>2. FreeProc(Pipe(u, p, "hijo0", "hijo1")) \in Procs
    <3>1. u \in UnixType /\ Running(u, p) /\ CanFork(u) /\ CanPipe(u)
      BY <1>8 DEF NewFilter, At, TypeOK
    <3>2. FreeProc(Pipe(u, p, "hijo0", "hijo1")) = FreeProc(u)
      BY <3>1, FdsAssumption, BranchEs DEF Running
    <3> QED
      BY <3>1, <3>2, FreeProcEs
  <2> QED
    BY <1>8, <2>1, <2>2, ForkedType DEF NewFilter
<1>9. ASSUME NEW p \in Procs, NewFilterFails(p)
      PROVE  TypeOK'
  <2>1. u' \in UnixType /\ failed' = TRUE
    BY <1>9, NewFilterFailsEs DEF EndStep, Leaves
  <2> QED
    BY <1>9, <2>1, EndedType DEF NewFilterFails, Failed
<1>10. ASSUME NEW p \in Procs, ReadNext(p)
       PROVE  TypeOK'
  BY <1>10, ReadNextType
<1>11. ASSUME NEW p \in Procs, Pass(p)
       PROVE  TypeOK'
  <2>1. \E k : LocalStep(c[k]) /\ UNCHANGED <<recibido, i, stdout, output>>
    BY <1>11, PassEs
  <2>2. pc' \in [Procs -> {"main", "send", "born", "first", "pipe", "next", "pass", "wait", "ended"}]
    BY <1>11, GotoType DEF Pass
  <2>3. numero' \in [Procs -> 0..MaxN]
    BY <1>11, MaxNAssumption DEF Pass, TypeOK
  <2> QED
    BY <2>1, <2>2, <2>3 DEF LocalStep, TypeOK
<1>12. ASSUME NEW p \in Procs, NextEof(p)
       PROVE  TypeOK'
  <2>1. \E k : LocalStep(c[k]) /\ Quiet
    BY <1>12, NextEofEs
  <2>2. pc' \in [Procs -> {"main", "send", "born", "first", "pipe", "next", "pass", "wait", "ended"}]
    BY <1>12, GotoType DEF NextEof
  <2> QED
    BY <2>1, <2>2 DEF LocalStep, Quiet, TypeOK
<1>13. ASSUME NEW p \in Procs, Sigpipe(p)
       PROVE  TypeOK'
  <2>1. u' \in UnixType /\ failed' \in BOOLEAN
    BY <1>13, SigpipeEs DEF EndStep, Leaves, TypeOK
  <2> QED
    BY <1>13, <2>1, EndedType DEF Sigpipe
<1>14. ASSUME NEW p \in Procs, Wait(p)
       PROVE  TypeOK'
  <2>1. u' \in UnixType /\ failed' \in BOOLEAN
    BY <1>14, WaitEs DEF EndStep, Leaves, TypeOK
  <2> QED
    BY <1>14, <2>1, EndedType DEF Wait
<1> QED
  BY <1>1, <1>2, <1>3, <1>4, <1>5, <1>6, <1>7, <1>8, <1>9, <1>10, <1>11, <1>12, <1>13, <1>14
     DEF Next, MainStep, Step

-----------------------------------------------------------------------------
(***************************************************************************)
(* Each step keeps the output.                                             *)
(***************************************************************************)

\* The number of the filters before the last one
LEMMA Below ==
    ASSUME TypeOK, NEW m, NEW c, NEW K, Structure(m, c, K), NEW L, Streams(m, c, K, L),
           NEW j \in 2..m - 1
    PROVE  recibido[c[j]] \in Nat \ {0, 1} /\ Sieves(c, L, j)
<1>1. m \in Nat /\ j \in 1..m /\ j > 1 /\ j < m /\ j \in Nat
  BY DEF Structure, Chain
<1>2. pc[c[j]] \in {"pipe", "next", "pass", "wait"}
  BY <1>1, Labels
<1>3. Sieves(c, L, j)
  BY <1>1, <1>2, Levels DEF StreamOf
<1>4. recibido[c[j]] \in Numbers(c, j)
  BY <1>3 DEF Sieves
<1>5. recibido[c[j]] \in Nat /\ 2 <= recibido[c[j]]
  BY <1>1, <1>4, NumbersAre
<1> QED
  BY <1>3, <1>5

\* A prime is the number of a filter, or comes to the last one.
LEMMA PrimesLeft ==
    ASSUME TypeOK, NEW m, NEW c, NEW K, Structure(m, c, K), NEW L, Streams(m, c, K, L),
           NEW v \in PrimesTo(n), \A j \in 2..m - 1 : v # recibido[c[j]]
    PROVE  v \in Numbers(c, m)
<1>1. n \in Nat /\ v \in 2..n
  BY DEF PrimesTo, TypeOK
<1>2. ASSUME NEW j \in 2..m - 1
      PROVE  v % recibido[c[j]] # 0
  BY <1>1, Below, PrimeStays
<1> QED
  BY <1>1, <1>2 DEF Numbers

\* The first number that the last one reads
LEMMA FirstFound ==
    ASSUME TypeOK, NEW m, NEW c, NEW K, Structure(m, c, K), NEW L, Streams(m, c, K, L), m > 1,
           NEW v \in Numbers(c, m), \A w \in Numbers(c, m) : v <= w
    PROVE  /\ v \in PrimesTo(n)
           /\ \A j \in 2..m - 1 : recibido[c[j]] < v
<1> DEFINE Q == {recibido[c[j]] : j \in 2..m - 1}
<1>1. n \in Nat /\ v \in 2..n /\ m \in Nat
  BY DEF Numbers, TypeOK, Structure, Chain
<1>2. \A q \in Q : q \in Nat \ {0, 1} /\ v % q # 0
  BY Below DEF Numbers
<1>3. ASSUME NEW w \in 2..n, \A q \in Q : w % q # 0
      PROVE  v <= w
  <2>1. w \in Numbers(c, m)
    BY <1>3 DEF Numbers
  <2> QED
    BY <2>1
<1>4. v \in PrimesTo(n)
  <2> HIDE DEF Q
  <2>1. \A w \in 2..n : (\A q \in Q : w % q # 0) => v <= w
    BY <1>3
  <2> QED
    BY <1>1, <1>2, <2>1, FirstIsPrime
<1>5. ASSUME NEW j \in 2..m - 1
      PROVE  recibido[c[j]] < v
  <2>1. PICK r : r = recibido[c[j]]
    OBVIOUS
  <2>2. r \in Nat \ {0, 1} /\ v % r # 0 /\ \A w \in Numbers(c, j) : r <= w
    BY <1>2, <2>1, Below DEF Sieves
  <2>3. v \in Numbers(c, j)
    <3>1. \A x \in 2..j - 1 : x \in 2..m - 1
      BY <1>1
    <3> QED
      BY <3>1 DEF Numbers
  <2>4. r <= v /\ r % r = 0
    BY <2>2, <2>3
  <2>5. r # v
    BY <2>2, <2>4
  <2> QED
    BY <1>1, <2>1, <2>2, <2>4, <2>5
<1> QED
  BY <1>4, <1>5

LEMMA QuietOutput ==
    ASSUME NEW m, NEW c, NEW K, Structure(m, c, K), Output(m, c), NEW k \in 1..m, LocalStep(c[k]),
           UNCHANGED <<recibido, stdout, output>>
    PROVE  Output(m, c)'
<1>1. UNCHANGED <<n, tty, failed>>
  BY DEF LocalStep
<1>2. (pc'[c[m]] = "ended") <=> (pc[c[m]] = "ended")
  <2>1. CASE m = k
    BY <2>1 DEF LocalStep
  <2>2. CASE m # k
    <3>1. m \in 1..m
      BY DEF Structure, Chain
    <3> QED
      BY <2>2, <3>1, LocalOthers
  <2> QED
    BY <2>1, <2>2
<1>3. Alive(m, c)' <=> Alive(m, c)
  BY <1>2 DEF Alive
<1>4. Printed(m, c)' = Printed(m, c) /\ Found(m, c)' = Found(m, c)
  BY <1>1 DEF Printed, Found
<1> QED
  BY <1>1, <1>3, <1>4 DEF Output, NoGap

LEMMA GrowsOutput ==
    ASSUME TypeOK, NEW m, NEW c, NEW K, Structure(m, c, K), Output(m, c),
           NEW b, NEW k, Grows(m, c, K, b, k),
           NEW d, Extends(m, c, d, b), NEW E, Extends(m, K, E, k)
    PROVE  Output(m + 1, d)'
<1>1. /\ m \in Nat \ {0} /\ b \in Procs /\ c[m] \in Procs /\ Nothing(b) /\ d[m + 1] = b
      /\ \A j \in 1..m : d[j] = c[j]
      /\ pc[c[m]] = IF m = 1 THEN "main" ELSE "pipe"
      /\ pc'[b] = "born"
  BY GrowsEs
<1>2. /\ stdout'[b] = stdout[c[m]] /\ \A q \in Procs \ {b} : stdout'[q] = stdout[q]
      /\ UNCHANGED <<n, tty, recibido, output, failed>>
  BY DEF Grows, ForkStep
<1>3. Alive(m, c) /\ Alive(m + 1, d)'
  BY <1>1 DEF Alive
<1>4. Found(m + 1, d)' = Found(m, c)
  <2>1. recibido[b] = 0
    BY <1>1 DEF Nothing
  <2>2. \A j \in 2..m + 1 : j = m + 1 \/ (j \in 2..m /\ j \in 1..m)
    BY <1>1
  <2>3. \A j \in 2..m : j \in 2..m + 1 /\ j \in 1..m
    BY <1>1
  <2>4. Found(m + 1, d)' \subseteq Found(m, c)
    BY <1>1, <1>2, <2>1, <2>2 DEF Found
  <2>5. Found(m, c) \subseteq Found(m + 1, d)'
    BY <1>1, <1>2, <2>3 DEF Found
  <2> QED
    BY <2>4, <2>5
<1>5. Printed(m + 1, d)' = Printed(m, c)
  BY <1>1, <1>2 DEF Printed
<1>6. \A q \in Procs : \E r \in Procs : stdout'[q] = stdout[r]
  BY <1>1, <1>2
<1>7. \A q \in Procs : Elems(stdout'[q]) \subseteq PrimesTo(n)
  BY <1>6 DEF Output
<1>8. tty => \A q \in Procs : stdout'[q] = <<>>
  BY <1>6 DEF Output
<1> QED
  BY <1>2, <1>3, <1>4, <1>5, <1>7, <1>8 DEF Output, NoGap

\* The end of a process writes what it has printed.
LEMMA EndsOutput ==
    ASSUME TypeOK, NEW m, NEW c, NEW K, Structure(m, c, K), Output(m, c),
           NEW k \in 1..m, Last(m, c, k), EndStep(m, c, k),
           failed' \/ PrimesTo(n) \subseteq Elems(output')
    PROVE  Output(k, c)' /\ Output(0, c)'
<1>1. /\ \A q \in Procs \ {c[k]} : stdout'[q] = stdout[q]
      /\ stdout'[c[k]] = <<>> /\ pc'[c[k]] = "ended"
      /\ UNCHANGED <<n, tty>>
      /\ output' = output \/ output' = output \o stdout[c[k]]
  BY DEF EndStep, Nothing
<1>2. c[k] \in Procs /\ output \in Seq(2..MaxN) /\ stdout[c[k]] \in Seq(2..MaxN)
  BY DEF Structure, Chain, TypeOK
<1>3. Elems(output') \subseteq Elems(output) \cup Elems(stdout[c[k]])
  <2>1. Elems(output \o stdout[c[k]]) = Elems(output) \cup Elems(stdout[c[k]])
    BY <1>2, ElemsConcat
  <2> QED
    BY <1>1, <2>1
<1>4. Elems(output') \subseteq PrimesTo(n)
  BY <1>2, <1>3 DEF Output
<1>5. Elems(<<>>) = {}
  BY DEF Elems
<1>6. \A q \in Procs : Elems(stdout'[q]) \subseteq PrimesTo(n)
  BY <1>1, <1>5 DEF Output
<1>7. tty => /\ output' = output
             /\ \A q \in Procs : stdout'[q] = <<>>
  <2> SUFFICES ASSUME tty
               PROVE  output' = output /\ \A q \in Procs : stdout'[q] = <<>>
    OBVIOUS
  <2>1. \A q \in Procs : stdout[q] = <<>>
    BY DEF Output
  <2>2. output \o <<>> = output
    BY <1>2
  <2> QED
    BY <1>1, <1>2, <2>1, <2>2
<1>8. tty => /\ Increasing(output)'
             /\ (\A a \in 1..Len(output) : NoGap(output, output[a]))'
  BY <1>1, <1>7 DEF Output, NoGap
<1>9. ~Alive(k, c)' /\ ~Alive(0, c)'
  BY <1>1 DEF Alive
<1> QED
  BY <1>1, <1>4, <1>6, <1>7, <1>8, <1>9 DEF Output, NoGap

LEMMA FirstOutput ==
    ASSUME TypeOK, NEW m, NEW c, NEW K, Structure(m, c, K), NEW L, Streams(m, c, K, L), Output(m, c),
           NEW p \in Procs, First(p)
    PROVE  Output(m, c)'
<1>1. PICK v : v = Head(u.pipe[K[m]])
  OBVIOUS
<1>2. /\ m > 1 /\ p = c[m] /\ pc[p] = "first" /\ pc'[p] = "pipe"
      /\ u.pipe[K[m]] # <<>>
      /\ recibido'[p] = v /\ \A q \in Procs \ {p} : recibido'[q] = recibido[q]
      /\ tty => output' = Append(output, v) /\ stdout' = stdout
      /\ ~tty => output' = output /\ stdout' = [stdout EXCEPT ![p] = Append(stdout[p], v)]
      /\ UNCHANGED <<n, tty, i, numero, pid, failed>>
  BY <1>1, FirstEs
<1>3. m \in Nat /\ m \in 1..m /\ m \in 2..m /\ pc[c[m]] \in Reading /\ m > 1
      /\ \A j \in 2..m - 1 : j \in 1..m /\ j # m /\ c[j] \in Procs \ {p}
  BY <1>2 DEF Structure, Chain, Reading
<1>4. /\ v \in Numbers(c, m) /\ \A w \in Numbers(c, m) : v <= w
  <2>1. /\ v \in Numbers(c, m) /\ \A w \in Numbers(c, m) : L[m] <= w => v <= w
    BY <1>1, <1>2, <1>3, Taken
  <2>2. /\ L[m] = 2 /\ \A w \in Numbers(c, m) : w \in Nat /\ 2 <= w
    BY <1>2, <1>3, Levels DEF StreamOf
  <2> QED
    BY <2>1, <2>2
<1>5. /\ v \in PrimesTo(n) /\ \A j \in 2..m - 1 : recibido[c[j]] < v
  BY <1>3, <1>4, FirstFound
<1> DEFINE Q == {recibido[c[j]] : j \in 2..m - 1}
<1>6. Found(m, c) = Q /\ Found(m, c)' = Q \cup {v}
  <2>1. recibido[p] = 0
    BY <1>2, <1>3, Levels DEF StreamOf
  <2>2. \A j \in 2..m - 1 : recibido[c[j]] # 0
    BY Below
  <2>3. v # 0
    BY <1>5 DEF PrimesTo
  <2>4. \A j \in 2..m : j = m \/ j \in 2..m - 1
    BY <1>3
  <2>5. \A j \in 2..m - 1 : j \in 2..m /\ recibido'[c[j]] = recibido[c[j]]
    BY <1>2, <1>3
  <2>6. Found(m, c) = Q
    BY <1>2, <2>1, <2>2, <2>4, <2>5 DEF Found
  <2>7. Found(m, c)' \subseteq Q \cup {v}
    BY <1>2, <2>4, <2>5 DEF Found
  <2>8. Q \cup {v} \subseteq Found(m, c)'
    BY <1>2, <1>3, <2>2, <2>3, <2>5 DEF Found
  <2> QED
    BY <2>6, <2>7, <2>8
<1>7. \A w \in PrimesTo(n) : w < v => w \in Q
  <2> SUFFICES ASSUME NEW w \in PrimesTo(n), w < v, w \notin Q
               PROVE  FALSE
    OBVIOUS
  <2>1. w \in Numbers(c, m)
    BY PrimesLeft
  <2>2. v <= w /\ v \in Nat /\ w \in Nat
    BY <1>4, <1>5, <2>1 DEF PrimesTo
  <2> QED
    BY <2>2
<1>8. \A w \in Q : w < v
  BY <1>5
<1>9. Alive(m, c) /\ Alive(m, c)'
  BY <1>2, <1>3 DEF Alive
<1>10. Printed(m, c) = Q
  BY <1>6, <1>9 DEF Output
<1> HIDE DEF Q
<1>11. v \in 2..MaxN /\ output \in Seq(2..MaxN) /\ stdout[p] \in Seq(2..MaxN)
  BY <1>5, MaxNAssumption DEF PrimesTo, TypeOK
<1>12. CASE tty
  <2>1. output' = Append(output, v) /\ stdout' = stdout /\ Elems(output) = Q
    BY <1>2, <1>10, <1>12 DEF Printed
  <2>2. Elems(output') = Q \cup {v}
    <3>1. Elems(Append(output, v)) = Elems(output) \cup {v}
      <4> DEFINE S == 2..MaxN
      <4>1. v \in S /\ output \in Seq(S)
        BY <1>11
      <4> HIDE DEF S
      <4> QED
        BY <4>1, ElemsAppend
    <3> QED
      BY <2>1, <3>1
  <2>3. Increasing(output')
    <3>1. Increasing(Append(output, v))
      <4>1. Increasing(output) /\ \A w \in Elems(output) : w < v
        BY <1>8, <1>12, <2>1 DEF Output
      <4> QED
        BY <1>11, <4>1, IncreasingAppend
    <3> QED
      BY <2>1, <3>1
  <2>4. ASSUME NEW a \in 1..Len(output')
        PROVE  \A w \in PrimesTo(n) : w < output'[a] => w \in Elems(output')
    <3>1. (a \in 1..Len(output) /\ output'[a] = output[a]) \/ output'[a] = v
      BY <1>11, <2>1
    <3>2. CASE a \in 1..Len(output) /\ output'[a] = output[a]
      BY <1>12, <2>1, <2>2, <3>2 DEF Output, NoGap
    <3>3. CASE output'[a] = v
      BY <1>7, <2>2, <3>3
    <3> QED
      BY <3>1, <3>2, <3>3
  <2>5. Printed(m, c)' = Q \cup {v}
    BY <1>2, <1>12, <2>2 DEF Printed
  <2>6. Q \subseteq PrimesTo(n)
    BY <2>1 DEF Output
  <2>7. (\A a \in 1..Len(output) : NoGap(output, output[a]))'
    BY <1>2, <2>4 DEF NoGap, PrimesTo
  <2>8. /\ (Elems(output) \subseteq PrimesTo(n))'
        /\ (\A q \in Procs : Elems(stdout[q]) \subseteq PrimesTo(n))'
        /\ (\A q \in Procs : stdout[q] = <<>>)'
    BY <1>2, <1>5, <1>12, <2>1, <2>2, <2>6 DEF Output, PrimesTo
  <2> QED
    BY <1>6, <1>9, <2>3, <2>5, <2>7, <2>8 DEF Output
<1>13. CASE ~tty
  <2>1. /\ output' = output /\ stdout'[p] = Append(stdout[p], v) /\ Elems(stdout[p]) = Q
        /\ \A q \in Procs \ {p} : stdout'[q] = stdout[q]
    BY <1>2, <1>10, <1>13 DEF Printed, TypeOK
  <2>2. Elems(stdout'[p]) = Q \cup {v}
    <3>1. Elems(Append(stdout[p], v)) = Elems(stdout[p]) \cup {v}
      <4> DEFINE S == 2..MaxN
      <4>1. v \in S /\ stdout[p] \in Seq(S)
        BY <1>11
      <4> HIDE DEF S
      <4> QED
        BY <4>1, ElemsAppend
    <3> QED
      BY <2>1, <3>1
  <2>3. Printed(m, c)' = Q \cup {v}
    BY <1>2, <1>13, <2>2 DEF Printed
  <2>4. Q \subseteq PrimesTo(n)
    BY <2>1 DEF Output
  <2>5. PrimesTo(n)' = PrimesTo(n) /\ ~tty'
    BY <1>2, <1>13 DEF PrimesTo
  <2>6. /\ (Elems(output) \subseteq PrimesTo(n))'
        /\ (\A q \in Procs : Elems(stdout[q]) \subseteq PrimesTo(n))'
    BY <1>2, <1>5, <2>1, <2>2, <2>4, <2>5 DEF Output
  <2> QED
    BY <1>6, <1>9, <2>3, <2>5, <2>6 DEF Output
<1> QED
  BY <1>12, <1>13

\* When a filter finds its pipe empty for good, all the primes are found.
LEMMA FirstEofOutput ==
    ASSUME TypeOK, NEW m, NEW c, NEW K, Structure(m, c, K), NEW L, Streams(m, c, K, L), Output(m, c),
           NEW p \in Procs, FirstEof(p)
    PROVE  PrimesTo(n) \subseteq Elems(output')
<1>1. /\ m > 1 /\ p = c[m] /\ pc[p] = "first" /\ pc[c[m - 1]] = "wait" /\ u.pipe[K[m]] = <<>>
      /\ output' = output \o stdout[p]
  BY FirstEofEs
<1>2. /\ m \in Nat /\ m \in 1..m /\ m \in 2..m /\ m - 1 \in 1..m /\ pc[c[m]] \in Reading
  BY <1>1 DEF Structure, Chain, Reading
<1>3. L[m] = 2 /\ \A w \in Numbers(c, m) : w \in Nat /\ 2 <= w /\ w <= n
  BY <1>1, <1>2, Levels DEF StreamOf
<1>4. L[m - 1] > n /\ Sent(c, L, m - 1) = L[m - 1] /\ n \in Nat /\ L[m - 1] \in Nat
  <2>1. StreamOf(c, L, m - 1) /\ n \in Nat /\ L[m - 1] \in Nat
    BY <1>2, Levels
  <2> QED
    BY <1>1, <2>1 DEF StreamOf, Sent
<1>5. Numbers(c, m) = {}
  <2>1. Queue(<<>>, Numbers(c, m), 2, L[m - 1])
    BY <1>1, <1>2, <1>3, <1>4 DEF Streams, Flows
  <2>2. Elems(<<>>) = {}
    BY DEF Elems
  <2>3. \A w \in Numbers(c, m) : ~(2 <= w /\ w < L[m - 1])
    BY <2>1, <2>2 DEF Queue
  <2> QED
    BY <1>3, <1>4, <2>3
<1>6. PrimesTo(n) \subseteq Found(m, c)
  <2> SUFFICES ASSUME NEW v \in PrimesTo(n)
               PROVE  v \in Found(m, c)
    OBVIOUS
  <2>1. PICK j \in 2..m - 1 : v = recibido[c[j]]
    BY <1>5, PrimesLeft
  <2>2. j \in 2..m /\ v # 0
    BY <1>2 DEF PrimesTo
  <2> QED
    BY <2>1, <2>2 DEF Found
<1>7. PrimesTo(n) \subseteq Printed(m, c)
  <2>1. Alive(m, c)
    BY <1>1, <1>2 DEF Alive
  <2> QED
    BY <1>6, <2>1 DEF Output
<1>8. Elems(output') = Elems(output) \cup Elems(stdout[p])
  <2>1. output \in Seq(2..MaxN) /\ stdout[p] \in Seq(2..MaxN)
    BY DEF TypeOK
  <2>2. Elems(output \o stdout[p]) = Elems(output) \cup Elems(stdout[p])
    BY <2>1, ElemsConcat
  <2> QED
    BY <1>1, <2>2
<1> QED
  BY <1>1, <1>7, <1>8 DEF Printed

\* When the last one has ended before, they are written already.
LEMMA EndedOutput ==
    ASSUME TypeOK, NEW m, NEW c, NEW K, Structure(m, c, K), Output(m, c), pc[c[m]] = "ended",
           NEW k \in 1..m, EndStep(m, c, k), failed' = failed
    PROVE  failed' \/ PrimesTo(n) \subseteq Elems(output')
<1>1. failed \/ PrimesTo(n) \subseteq Elems(output)
  BY DEF Output, Alive
<1>2. Elems(output) \subseteq Elems(output')
  <2>1. output \in Seq(2..MaxN) /\ stdout[c[k]] \in Seq(2..MaxN)
    BY DEF TypeOK, Structure, Chain
  <2>2. Elems(output \o stdout[c[k]]) = Elems(output) \cup Elems(stdout[c[k]])
    BY <2>1, ElemsConcat
  <2> QED
    BY <2>2 DEF EndStep
<1> QED
  BY <1>1, <1>2

-----------------------------------------------------------------------------
(***************************************************************************)
(* The invariant is inductive.                                             *)
(***************************************************************************)

LEMMA InitSieve ==
    ASSUME Init
    PROVE  IInv
<1> DEFINE c == [k \in 1..1 |-> Main]
           L == [k \in 1..1 |-> 2]
<1>1. c[1] = Main /\ L[1] = 2 /\ \A k \in 1..1 : k = 1
  OBVIOUS
<1> HIDE DEF c, L
<1>2. /\ u.state = [x \in Procs |-> IF x = Main THEN "running" ELSE "none"]
      /\ u.parent = [x \in Procs |-> InitProc]
      /\ u.fds = [x \in Procs |-> [d \in Fds |-> Closed]]
      /\ u.pipe = [k \in Pipes |-> <<>>]
      /\ u \in UnixType
  BY DEF Init, Boot, UnixType
<1>3. pc[Main] = "main" /\ \A p \in Procs : pc[p] = IF p = Main THEN "main" ELSE "ended"
  BY MainAssumption DEF Init
<1>4. TypeOK
  <2>1. <<>> \in Seq(2..MaxN) /\ 2 \in 2..MaxN + 1 /\ 0 \in 0..MaxN
    BY MaxNAssumption
  <2>2. /\ pc \in [Procs -> {"main", "send", "born", "first", "pipe", "next", "pass", "wait", "ended"}]
        /\ recibido \in [Procs -> 0..MaxN] /\ numero \in [Procs -> 0..MaxN]
        /\ pid \in [Procs -> Procs \cup {InitProc}] /\ stdout \in [Procs -> Seq(2..MaxN)]
    BY <2>1 DEF Init
  <2> QED
    BY <1>2, <2>1, <2>2 DEF Init, TypeOK
<1>5. Chain(1, c)
  <2>1. u.parent[Main] = InitProc
    BY <1>1, <1>2, MainAssumption
  <2>2. \A p \in Procs : pc[p] = "ended" => Nothing(p)
    BY <1>2, <1>3 DEF Nothing, Init
  <2>3. \A k \in 1..1 : u.state[c[k]] = IF pc[c[k]] = "ended" THEN "zombie" ELSE "running"
    BY <1>1, <1>2, <1>3, MainAssumption
  <2>4. \A p \in Procs : (\A k \in 1..1 : c[k] # p) => u.state[p] = "none" /\ pc[p] = "ended"
    BY <1>1, <1>2, <1>3
  <2> QED
    BY <1>1, <2>1, <2>2, <2>3, <2>4, MainAssumption DEF Chain
<1>6. Places(1, c)
  BY <1>1, <1>3 DEF Places
<1>7. HasEnds(1, c, c)
  BY <1>1, <1>2, <1>3, MainAssumption, FdsAssumption DEF HasEnds, EndsOf, Fd
<1>8. HasPipes(1, c, c)
  BY DEF HasPipes
<1>9. Streams(1, c, c, L)
  BY <1>1, <1>3 DEF Streams, StreamOf, Init
<1>10. Elems(<<>>) = {} /\ Increasing(<<>>) /\ Len(<<>>) = 0
  BY DEF Elems, Increasing
<1>11. Found(1, c) = {}
  BY DEF Found
<1>12. output = <<>> /\ \A p \in Procs : stdout[p] = <<>>
  BY DEF Init
<1>13. Printed(1, c) = {} /\ Alive(1, c)
  BY <1>1, <1>3, <1>10, <1>12, MainAssumption DEF Printed, Alive
<1>14. Output(1, c)
  <2>1. Elems(output) = {} /\ Increasing(output) /\ Len(output) = 0 /\ \A p \in Procs : Elems(stdout[p]) = {}
    BY <1>10, <1>12
  <2> QED
    <3>1. Elems(output) \subseteq PrimesTo(n) /\ \A p \in Procs : Elems(stdout[p]) \subseteq PrimesTo(n)
      BY <2>1
    <3>2. \A a \in 1..Len(output) : NoGap(output, output[a])
      BY <2>1
    <3>3. Printed(1, c) = Found(1, c) /\ Alive(1, c)
      BY <1>11, <1>13
    <3> QED
      BY <1>12, <2>1, <3>1, <3>2, <3>3, Zenon DEF Output
<1> QED
  BY <1>4, <1>5, <1>6, <1>7, <1>8, <1>9, <1>14 DEF IInv, Sieve

\* The steps of one process that neither end it nor make another
LEMMA LocalSieve ==
    ASSUME TypeOK, NEW m, NEW c, NEW K, NEW L, Sieve(m, c, K, L),
           MainSend \/ MainDone
             \/ \E p \in Procs : Born(p) \/ First(p) \/ ReadNext(p) \/ Pass(p) \/ NextEof(p)
    PROVE  \E M : Sieve(m, c, K, M)'
<1>1. Structure(m, c, K) /\ Streams(m, c, K, L) /\ Output(m, c)
  BY DEF Sieve, Structure
<1> SUFFICES Structure(m, c, K)' /\ Output(m, c)' /\ \E M : Streams(m, c, K, M)'
  BY DEF Sieve, Structure
<1>2. CASE MainSend
  <2>1. Structure(m, c, K)' /\ LocalStep(c[1]) /\ 1 \in 1..m /\ UNCHANGED <<recibido, stdout, output>>
    BY <1>1, <1>2, MainSendEs DEF Structure, Chain
  <2>2. Output(m, c)'
    BY <1>1, <2>1, QuietOutput
  <2>3. \E M : Streams(m, c, K, M)'
    BY <1>1, <1>2, MainSendStreams
  <2> QED
    BY <2>1, <2>2, <2>3
<1>3. CASE MainDone
  <2>1. Structure(m, c, K)' /\ LocalStep(c[1]) /\ 1 \in 1..m /\ UNCHANGED <<recibido, stdout, output>>
    BY <1>1, <1>3, MainDoneEs DEF Structure, Chain, Quiet
  <2>2. Output(m, c)'
    BY <1>1, <2>1, QuietOutput
  <2>3. Streams(m, c, K, L)'
    BY <1>1, <1>3, MainDoneStreams
  <2> QED
    BY <2>1, <2>2, <2>3
<1>4. ASSUME NEW p \in Procs, Born(p)
      PROVE  Structure(m, c, K)' /\ Output(m, c)' /\ \E M : Streams(m, c, K, M)'
  <2>1. Structure(m, c, K)' /\ LocalStep(c[m]) /\ m \in 1..m /\ UNCHANGED <<recibido, stdout, output>>
    BY <1>1, <1>4, BornEs DEF Structure, Chain, Quiet
  <2>2. Output(m, c)'
    BY <1>1, <2>1, QuietOutput
  <2>3. Streams(m, c, K, L)'
    BY <1>1, <1>4, BornStreams
  <2> QED
    BY <2>1, <2>2, <2>3
<1>5. ASSUME NEW p \in Procs, First(p)
      PROVE  Structure(m, c, K)' /\ Output(m, c)' /\ \E M : Streams(m, c, K, M)'
  <2>1. Structure(m, c, K)'
    BY <1>1, <1>5, FirstEs
  <2>2. Output(m, c)'
    BY <1>1, <1>5, FirstOutput
  <2>3. \E M : Streams(m, c, K, M)'
    BY <1>1, <1>5, FirstStreams
  <2> QED
    BY <2>1, <2>2, <2>3
<1>6. ASSUME NEW p \in Procs, ReadNext(p)
      PROVE  Structure(m, c, K)' /\ Output(m, c)' /\ \E M : Streams(m, c, K, M)'
  <2>1. \E k \in 1..m : Structure(m, c, K)' /\ LocalStep(c[k]) /\ UNCHANGED <<recibido, stdout, output>>
    <3>1. \A k \in 2..m - 1 : k \in 1..m
      BY <1>1 DEF Structure, Chain
    <3>2. \E k \in 2..m - 1 : Structure(m, c, K)' /\ LocalStep(c[k]) /\ UNCHANGED <<recibido, i, stdout, output>>
      BY <1>1, <1>6, ReadNextEs
    <3> QED
      BY <3>1, <3>2
  <2>2. Output(m, c)'
    BY <1>1, <2>1, QuietOutput
  <2>3. \E M : Streams(m, c, K, M)'
    BY <1>1, <1>6, ReadNextStreams
  <2> QED
    BY <2>1, <2>2, <2>3
<1>7. ASSUME NEW p \in Procs, Pass(p)
      PROVE  Structure(m, c, K)' /\ Output(m, c)' /\ \E M : Streams(m, c, K, M)'
  <2>1. \E k \in 1..m : Structure(m, c, K)' /\ LocalStep(c[k]) /\ UNCHANGED <<recibido, stdout, output>>
    <3>1. \A k \in 2..m - 1 : k \in 1..m
      BY <1>1 DEF Structure, Chain
    <3>2. \E k \in 2..m - 1 : Structure(m, c, K)' /\ LocalStep(c[k]) /\ UNCHANGED <<recibido, i, stdout, output>>
      BY <1>1, <1>7, PassEs
    <3> QED
      BY <3>1, <3>2
  <2>2. Output(m, c)'
    BY <1>1, <2>1, QuietOutput
  <2>3. Streams(m, c, K, L)'
    BY <1>1, <1>7, PassStreams
  <2> QED
    BY <2>1, <2>2, <2>3
<1>8. ASSUME NEW p \in Procs, NextEof(p)
      PROVE  Structure(m, c, K)' /\ Output(m, c)' /\ \E M : Streams(m, c, K, M)'
  <2>1. \E k \in 1..m : Structure(m, c, K)' /\ LocalStep(c[k]) /\ UNCHANGED <<recibido, stdout, output>>
    <3>1. \A k \in 2..m - 1 : k \in 1..m
      BY <1>1 DEF Structure, Chain
    <3>2. \E k \in 2..m - 1 : Structure(m, c, K)' /\ LocalStep(c[k]) /\ Quiet
      BY <1>1, <1>8, NextEofEs
    <3> QED
      BY <3>1, <3>2 DEF Quiet
  <2>2. Output(m, c)'
    BY <1>1, <2>1, QuietOutput
  <2>3. \E M : Streams(m, c, K, M)'
    BY <1>1, <1>8, NextEofStreams
  <2> QED
    BY <2>1, <2>2, <2>3
<1> QED
  BY <1>2, <1>3, <1>4, <1>5, <1>6, <1>7, <1>8

LEMMA GrowsSieve ==
    ASSUME TypeOK, NEW m, NEW c, NEW K, NEW L, Sieve(m, c, K, L),
           NEW b, NEW k, Grows(m, c, K, b, k)
    PROVE  \E d, E, M : Sieve(m + 1, d, E, M)'
<1>1. Structure(m, c, K) /\ Streams(m, c, K, L) /\ Output(m, c) /\ m \in Nat
  BY DEF Sieve, Structure, Chain
<1>2. ASSUME NEW f, NEW x
      PROVE  \E g : Extends(m, f, g, x)
  <2> DEFINE g == [j \in 1..m + 1 |-> IF j = m + 1 THEN x ELSE f[j]]
  <2>1. g[m + 1] = x /\ \A j \in 1..m : g[j] = f[j]
    BY <1>1
  <2>2. Extends(m, f, g, x)
    BY <2>1 DEF Extends
  <2> QED
    BY <2>2
<1>3. PICK d : Extends(m, c, d, b)
  BY <1>2
<1>4. PICK E : Extends(m, K, E, k)
  BY <1>2
<1>5. PICK M : Extends(m, L, M, 2)
  BY <1>2
<1>6. Structure(m + 1, d, E)'
  BY <1>1, <1>3, <1>4, GrowsStructure
<1>7. Streams(m + 1, d, E, M)'
  BY <1>1, <1>3, <1>4, <1>5, GrowsStreams
<1>8. Output(m + 1, d)'
  BY <1>1, <1>3, <1>4, GrowsOutput
<1> QED
  BY <1>6, <1>7, <1>8 DEF Sieve, Structure

LEMMA EndsSieve ==
    ASSUME TypeOK, NEW m, NEW c, NEW K, NEW L, Sieve(m, c, K, L),
           NEW k \in 1..m, Last(m, c, k), EndStep(m, c, k),
           failed' \/ PrimesTo(n) \subseteq Elems(output')
    PROVE  \E j : Sieve(j, c, K, L)'
<1>1. Structure(m, c, K) /\ Streams(m, c, K, L) /\ Output(m, c) /\ m \in Nat
  BY DEF Sieve, Structure, Chain
<1>2. Streams(k, c, K, L)' /\ Streams(0, c, K, L)' /\ Output(k, c)' /\ Output(0, c)'
  BY <1>1, EndsStreams, EndsOutput
<1>3. CASE k = 1
  <2>1. Structure(0, c, K)'
    BY <1>1, <1>3, AllGone
  <2> QED
    BY <1>2, <2>1 DEF Sieve, Structure
<1>4. CASE k \in 2..m
  <2>1. Structure(k, c, K)'
    BY <1>1, <1>4, EndsStructure
  <2> QED
    BY <1>2, <2>1 DEF Sieve, Structure
<1> QED
  BY <1>1, <1>3, <1>4

LEMMA NextSieve ==
    ASSUME IInv, Next
    PROVE  IInv'
<1>1. PICK m, c, K, L : Sieve(m, c, K, L)
  BY DEF IInv
<1>2. TypeOK /\ Structure(m, c, K) /\ Streams(m, c, K, L) /\ Output(m, c) /\ m \in Nat
  BY <1>1 DEF IInv, Sieve, Structure, Chain
<1>3. TypeOK'
  BY <1>2, NextType
<1> SUFFICES \E j, d, E, M : Sieve(j, d, E, M)'
  BY <1>3 DEF IInv
<1>4. CASE MainSend \/ MainDone
             \/ \E p \in Procs : Born(p) \/ First(p) \/ ReadNext(p) \/ Pass(p) \/ NextEof(p)
  <2>1. \E M : Sieve(m, c, K, M)'
    BY <1>1, <1>2, <1>4, LocalSieve
  <2> QED
    BY <2>1
<1>5. CASE MainPipe \/ \E p \in Procs : NewFilter(p)
  <2>1. PICK b, k : b = FreeProc(u) /\ k = FreePipe(u)
    OBVIOUS
  <2>2. Grows(m, c, K, b, k)
    BY <1>2, <1>5, <2>1, MainPipeEs, NewFilterEs
  <2>3. \E d, E, M : Sieve(m + 1, d, E, M)'
    BY <1>1, <1>2, <2>2, GrowsSieve
  <2> QED
    BY <2>3
<1>6. ASSUME NEW k \in 1..m, Last(m, c, k), EndStep(m, c, k), failed' \/ PrimesTo(n) \subseteq Elems(output')
      PROVE  \E j, d, E, M : Sieve(j, d, E, M)'
  <2>1. \E j : Sieve(j, c, K, L)'
    BY <1>1, <1>2, <1>6, EndsSieve
  <2> QED
    BY <2>1
<1>7. CASE MainFails
  <2>1. 1 \in 1..m /\ Last(m, c, 1) /\ EndStep(m, c, 1)
    <3>1. m = 1 /\ Last(m, c, 1) /\ EndStep(m, c, 1)
      BY <1>2, <1>7, MainFailsEs, Zenon
    <3> QED
      BY <3>1
  <2>2. failed'
    BY <1>7 DEF MainFails, Failed
  <2> QED
    BY <1>6, <2>1, <2>2
<1>8. CASE \E p \in Procs : FirstEof(p)
  <2>1. m \in 1..m /\ Last(m, c, m) /\ EndStep(m, c, m)
    BY <1>2, <1>8, FirstEofEs
  <2>2. PrimesTo(n) \subseteq Elems(output')
    BY <1>2, <1>8, FirstEofOutput
  <2> QED
    BY <1>6, <2>1, <2>2
<1>9. CASE \E p \in Procs : NewFilterFails(p)
  <2>1. m \in 1..m /\ Last(m, c, m) /\ EndStep(m, c, m)
    <3>1. m > 1 /\ Last(m, c, m) /\ EndStep(m, c, m)
      BY <1>2, <1>9, NewFilterFailsEs, Zenon
    <3> QED
      BY <1>2, <3>1
  <2>2. failed'
    BY <1>9 DEF NewFilterFails, Failed
  <2> QED
    BY <1>6, <2>1, <2>2
<1>10. CASE \E p \in Procs : Sigpipe(p) \/ Wait(p)
  <2>1. /\ m > 1 /\ pc[c[m]] = "ended" /\ Last(m, c, m - 1) /\ EndStep(m, c, m - 1)
        /\ failed' = failed
    BY <1>2, <1>10, SigpipeEs, WaitEs
  <2>2. m - 1 \in 1..m
    BY <1>2, <2>1
  <2>3. failed' \/ PrimesTo(n) \subseteq Elems(output')
    BY <1>2, <2>1, <2>2, EndedOutput
  <2> QED
    BY <1>6, <2>1, <2>2, <2>3
<1> QED
  BY <1>4, <1>5, <1>7, <1>8, <1>9, <1>10 DEF Next, MainStep, Step

LEMMA SameSieve ==
    ASSUME IInv, UNCHANGED vars
    PROVE  IInv'
<1>1. PICK m, c, K, L : Sieve(m, c, K, L)
  BY DEF IInv
<1>2. UNCHANGED <<u, n, tty, pc, i, recibido, numero, pid, stdout, output, failed>>
  BY DEF vars
<1>3. TypeOK'
  BY <1>2 DEF IInv, TypeOK
<1>4. Chain(m, c)' /\ Places(m, c)'
  BY <1>1, <1>2 DEF Sieve, Chain, Nothing, Places
<1>5. HasEnds(m, c, K)' /\ HasPipes(m, c, K)'
  BY <1>1, <1>2 DEF Sieve, HasEnds, EndsOf, Fd, HasPipes, Used
<1>6. \A k : Numbers(c, k)' = Numbers(c, k)
  BY <1>2 DEF Numbers
<1>7. Streams(m, c, K, L)'
  BY <1>1, <1>2, <1>6 DEF Sieve, Streams, StreamOf, Sieves, Flows, Sent
<1>8. Output(m, c)'
  BY <1>1, <1>2 DEF Sieve, Output, Alive, Printed, Found, NoGap, PrimesTo
<1> QED
  BY <1>3, <1>4, <1>5, <1>7, <1>8 DEF IInv, Sieve

LEMMA SieveHolds ==
    Spec => []IInv
<1>1. Init => IInv
  BY InitSieve
<1>2. IInv /\ [Next]_vars => IInv'
  BY NextSieve, SameSieve
<1> QED
  BY <1>1, <1>2, PTL DEF Spec

-----------------------------------------------------------------------------
(***************************************************************************)
(* What the sieve promises.                                                *)
(***************************************************************************)

LEMMA SievePrints ==
    ASSUME IInv
    PROVE  OnlyPrimes
<1>1. PICK m, c, K, L : Sieve(m, c, K, L)
  BY DEF IInv
<1>2. Chain(m, c) /\ Output(m, c) /\ TypeOK
  BY <1>1 DEF Sieve, IInv
<1>3. output \in Seq(2..MaxN) /\ DOMAIN output = 1..Len(output) /\ Len(output) \in Nat
  BY <1>2 DEF TypeOK
<1> DEFINE Written == {output[k] : k \in DOMAIN output}
<1>4. Written = Elems(output)
  BY <1>3 DEF Elems
<1> HIDE DEF Written
<1>5. Written \subseteq PrimesTo(n)
  BY <1>2, <1>4 DEF Output
<1>6. ASSUME tty, NEW k \in DOMAIN output
      PROVE  /\ \A l \in 1..k - 1 : output[l] < output[k]
             /\ \A v \in PrimesTo(n) : v < output[k] => v \in Written
  BY <1>2, <1>3, <1>4, <1>6 DEF Output, Increasing, NoGap
<1>7. ASSUME AllEnded, ~failed
      PROVE  Written = PrimesTo(n)
  <2>1. m = 0
    <3> SUFFICES ASSUME m # 0
                 PROVE  FALSE
      OBVIOUS
    <3>1. m \in 1..m
      BY <1>2 DEF Chain
    <3>2. c[m] \in Procs /\ u.state[c[m]] # "none"
      BY <1>2, <3>1 DEF Chain
    <3> QED
      BY <1>7, <3>2 DEF AllEnded
  <2>2. PrimesTo(n) \subseteq Elems(output)
    BY <1>2, <1>7, <2>1 DEF Output, Alive
  <2> QED
    BY <1>4, <1>5, <2>2
<1> QED
  BY <1>5, <1>6, <1>7 DEF OnlyPrimes, Written

LEMMA SieveJoins ==
    ASSUME IInv
    PROVE  OneReaderOneWriter
<1>1. PICK m, c, K, L : Sieve(m, c, K, L)
  BY DEF IInv
<1> QED
  BY <1>1, StructureHolds DEF Sieve, Structure

\* The variables keep their types.  What a filter reads is a number between 2
\* and n: the type of numero and of what is printed rests on the invariant of
\* the pipes.
THEOREM SieveTypes ==
    Spec => []TypeOK
<1>1. IInv => TypeOK
  BY DEF IInv
<1> QED
  BY <1>1, SieveHolds, PTL

\* primes.c prints primes and nothing else, on a terminal in order and with
\* none left out, and all of them when no call fails: for every n, every size
\* of the pipes and every order of the processes.
THEOREM SievePrintsPrimes ==
    Spec => []OnlyPrimes
<1>1. IInv => OnlyPrimes
  BY SievePrints
<1> QED
  BY <1>1, SieveHolds, PTL

\* The descriptors that primes.c closes leave each pipe with one reader and
\* one writer, however long the chain of filters gets.
THEOREM SievePipes ==
    Spec => []OneReaderOneWriter
<1>1. IInv => OneReaderOneWriter
  BY SieveJoins
<1> QED
  BY <1>1, SieveHolds, PTL
=============================================================================
