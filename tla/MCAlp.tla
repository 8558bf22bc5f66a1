-------------------------------- MODULE MCAlp -------------------------------
(* Two tasks with an input queue each that answer through the same output  *)
(* queue, and messages: a read, a write without response, the first part   *)
(* of a chunked message for no processor, and a read without response.     *)
(* Where tasks preempt each other there is one read for each.              *)
EXTENDS Alp

CONSTANTS t1, t2, in1, in2, mpipe

TaskIn  == [t \in {t1, t2} |-> IF t = t1 THEN in1 ELSE in2]
TaskOut == [t \in {t1, t2} |-> mpipe]

Record(i, m, k, n, r) == [rid |-> i, me |-> m, kind |-> k, items |-> n, respond |-> r]

Read == Record(1, TRUE, "read", 1, TRUE)

Bodies == {Record(1, TRUE, "read", 2, TRUE), Record(1, TRUE, "write", 1, FALSE),
           Record(6, FALSE, "write", 1, TRUE), Record(1, TRUE, "read", 1, FALSE), Read}

Traffics == ({"cooperative"} \X (1..MaxSent) \X (Bodies \ {Read}))
            \cup ({"preemptive"} \X {1} \X {Read})
=============================================================================
