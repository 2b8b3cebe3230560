------------------------------- MODULE MCGateway -------------------------------
(* Model checking of what a request meets in the web server. A behaviour follows   *)
(* either the requests of a signed-in browser or the attempts to log in: they      *)
(* share no state.                                                                 *)
(*                                                                                 *)
(* Requests: every route of every module, with one change of the account, its      *)
(* permissions, the module or the session, apart from logins, and with MaxChanges  *)
(* of them for the modules in Deep. The changes wait while a call is under way or  *)
(* the answer is written: nobody reads what they change before that is over, and   *)
(* a call keeps what held when it was sent.                                        *)
EXTENDS Gateway, Limiter

CONSTANTS MaxChanges, Deep

VARIABLES
    focus,
    left       \* changes still to come

Unread == At("wait") \/ At("answered")

MCInit ==
    /\ focus \in {"requests", "attempts"}
    /\ Init /\ LimiterInit
    /\ left = IF module \in Deep THEN MaxChanges ELSE 1
    \* one initial state of the part that rests
    /\ focus = "attempts" => kind = "root" /\ module = "-"

Serving ==
    \/ (Handler \/ Client \/ Daemon) /\ UNCHANGED left
    \/ ~Unread /\ (Login \/ CompleteLogin) /\ UNCHANGED left
    \/ /\ left > 0 /\ ~Unread
       /\ Administration \/ ChangePassword \/ SessionEnds
       /\ left' = left - 1

MCNext ==
    \/ focus = "requests" /\ Serving /\ UNCHANGED <<focus, limiterVars>>
    \/ focus = "attempts" /\ LimiterNext /\ UNCHANGED <<focus, left, vars>>

MCSpec ==
    /\ MCInit /\ [][MCNext]_<<focus, left, vars, limiterVars>>
    /\ Fairness /\ WF_limiterVars(Tick)

=============================================================================
