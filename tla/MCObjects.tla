------------------------------ MODULE MCObjects ------------------------------
(* Two processes: t1 and t2 share one, t3 has its own. *)
EXTENDS Objects, TLC

CONSTANTS h1, h2, t1, t2, t3, r1, r2

AtV   == t1 :> h1 @@ t2 :> h1 @@ t3 :> h2
SeatV == h1 :> r1 @@ h2 :> r2

Everybody == {{t1, t2, t3}}
Pairs     == {{t1, t2}, {t1, t3}}

CrewsV ==
    [p \in {"mutex", "barrier", "spinlock"} |-> Everybody]
    @@ "region" :> {{t1}}
    @@ [p \in {"array", "condition", "rwlock", "semaphore", "mq"} |-> Pairs]
    @@ [p \in {"layout", "pickle", "futex", "descriptors", "clock"} |-> {{}}]

LiveCrewsV == [p \in {"mutex", "spinlock"} |-> Everybody]

KindAlignV == [k \in {"mutex", "robust", "cond"} |-> 2] @@ "sem" :> 1 @@ "bytes" :> 4
KindSizeV  == [k \in {"mutex", "robust", "cond", "sem"} |-> 4] @@ "bytes" :> 0
CountOfV   == "sem" :> {0}
KindCodeV  == "mutex" :> 1 @@ "robust" :> 2 @@ "cond" :> 4 @@ "sem" :> 5 @@ "bytes" :> 0

(* Directories as Layout builds them, without the offsets, which pickling  *)
(* does not look at.                                                       *)
Built(kind, size, aux) ==
    [kind |-> kind, align |-> KindAlignV[kind], size |-> size, offset |-> 0, aux |-> aux]
M        == Built("mutex", 4, <<>>)
R        == Built("robust", 4, <<>>)
S(n)     == Built("sem", 4, <<n>>)
C(m)     == Built("cond", 4, <<m>>)
Ring(n, d, i) == Built("bytes", AlignUp(n, CacheLine), <<d, i>>)
Q(d, i)  == <<R, R, C(0), C(1), Ring(QueueBytes(d, i), d, i)>>
FQ(d, i) == <<R, R, Ring(FutexQueueBytes(d, i), d, i)>>

DirectoriesV ==
    {<<M>>, <<S(0), M>>, <<M, C(0)>>, <<R, R, R>>, <<S(0), S(1)>>, <<R, C(0), M>>,
     <<R, Built("bytes", 4, <<>>)>>, Q(1, 1), Q(1, 6), Q(2, 1), FQ(1, 1), FQ(2, 1)}

=============================================================================
