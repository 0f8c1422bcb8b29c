------------------------------ MODULE Thread ------------------------------
(***************************************************************************)
(* libcthreads_thread.c: Main creates threads that run a callback, and     *)
(* joins them.  In the pthread build the thread hands the callback's       *)
(* result to join in an int that it allocates first.                       *)
(***************************************************************************)
EXTENDS Calls

CONSTANTS Main

ASSUME ThreadAssumption == Main \in Threads

Workers == Threads \ {Main}

VARIABLES life,             \* where a thread is between create and exit
          thread_result,    \* what the int allocated by the thread holds
          join_result       \* what join has returned, or 0 before

threadVars == <<life, thread_result, join_result>>

NoResult == 0

ThreadTypeOK ==
    /\ life \in [Workers -> {"none", "refused", "created", "running",
                              "exited"}]
    /\ thread_result \in [Workers -> {-1, 1, NoResult}]
    /\ join_result \in [Workers -> {-1, 0, 1}]

ThreadInit ==
    /\ life = [w \in Workers |-> "none"]
    /\ thread_result = [w \in Workers |-> NoResult]
    /\ join_result = [w \in Workers |-> 0]

Live(w, stage) == life' = [life EXCEPT ![w] = stage]

\* libcthreads_thread_create; after a failure there is nothing to join.
CreateThread(w) ==
    /\ life[w] = "none"
    /\ \/ Live(w, "created") /\ Answer(Main, 1) /\ Succeed
       \/ Live(w, "refused") /\ ReturnError(Main, "create")
    /\ UNCHANGED <<build, thread_result, join_result>>

\* The helper reads the callback from the object.  A pthread that cannot
\* allocate the int exits without calling it.
Launch(w) ==
    /\ life[w] = "created"
    /\ join_result[w] = 0
    /\ \/ Live(w, "running") /\ Succeed
       \/ build = "pthread" /\ Fail("memory") /\ Live(w, "exited")
    /\ UNCHANGED <<answer, build, thread_result, join_result>>

\* The callback returns r.
Exit(w, r) ==
    /\ life[w] = "running"
    /\ Live(w, "exited")
    /\ thread_result' = [thread_result EXCEPT ![w] = r]
    /\ UNCHANGED join_result

\* Mutant of JoinThread: it does not wait for the thread.
JoinThreadNow(w) ==
    /\ life[w] \in {"created", "running", "exited"}
    /\ join_result[w] = 0
    /\ LET r == IF thread_result[w] = -1 THEN -1 ELSE 1
       IN join_result' = [join_result EXCEPT ![w] = r] /\ Answer(Main, r)
    /\ Succeed
    /\ UNCHANGED <<build, life, thread_result>>

\* Only the pthread build looks at the result.  When waiting for the thread
\* fails the object is freed nevertheless, which is the end of join too.
JoinThread(w) ==
    /\ life[w] \in {"created", "running", "exited"}
    /\ join_result[w] = 0
    /\ \/ /\ life[w] = "exited"
          /\ LET r == IF build = "pthread" /\ thread_result[w] = -1
                      THEN -1 ELSE 1
             IN join_result' = [join_result EXCEPT ![w] = r] /\ Answer(Main, r)
          /\ Succeed
       \/ /\ join_result' = [join_result EXCEPT ![w] = -1]
          /\ ReturnError(Main, "join")
    /\ UNCHANGED <<build, life, thread_result>>

(* A join that returns 1 has waited for the thread, which has run the      *)
(* callback if it had the memory for its result; in the pthread build the  *)
(* callback has not failed then.  Join returns -1 only if the callback or  *)
(* the join itself has failed.                                             *)
JoinReportsTheThread ==
    \A w \in Workers :
        /\ join_result[w] = 1 =>
              /\ life[w] = "exited"
              /\ build = "pthread" => thread_result[w] # -1
              /\ thread_result[w] = NoResult => "memory" \in failures
        /\ join_result[w] = -1 =>
              \/ "join" \in failures
              \/ life[w] = "exited" /\ thread_result[w] = -1
=============================================================================
