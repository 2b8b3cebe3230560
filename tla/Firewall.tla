------------------------------- MODULE Firewall -------------------------------
(***************************************************************************)
(* The firewall (internal/domain/firewall) and the page that manages it.    *)
(* A rule has no identity but its place in the list: the page sends a       *)
(* number, the web server asks the daemon for the rule's fingerprint, the   *)
(* daemon compares it and lets systemd run the action five seconds later in *)
(* a process that compares it once more.                                    *)
(*                                                                         *)
(* Nothing locks the firewall: actions that systemd starts overlap with     *)
(* each other and with an administrator at the console, so each is split at *)
(* every program it runs.  A rule is its text.  With UFW the fingerprint    *)
(* covers the number as well, which the request repeats: comparing the text *)
(* at that number is the same.                                              *)
(***************************************************************************)
EXTENDS Naturals, FiniteSets, Sequences, SequencesExt

CONSTANTS
    Texts,      \* rule texts, as numbers in the order of sort.Strings
    FwSlots,    \* actions under way at once
    NoRule

ASSUME TextsAssumption == Texts \subseteq Nat /\ IsFiniteSet(Texts) /\ NoRule \notin Texts

VARIABLES
    firewalld,  \* the firewall is firewalld, not UFW
    on,         \* it is enabled
    table,      \* UFW: its rules in order; firewalld: those in force, sorted
    permanent,  \* firewalld: those that the next reload puts in force
    page,       \* the list that the open page shows
    acts,       \* the actions under way
    event       \* history: what the last step removed or completed

fwVars == <<firewalld, on, table, permanent, page, acts, event>>

-----------------------------------------------------------------------------
FwKinds == {"add", "delete", "enable", "disable", "reload"}

\* timer: systemd-run has it.  verify and later: the process that it started.
FwSteps == {"idle", "check", "confirm", "timer", "verify", "reread", "remove", "adding", "apply"}

NoAct == [kind |-> "reload", step |-> "idle", number |-> 0, shown |-> NoRule, print |-> NoRule,
          rules |-> {}, touched |-> FALSE]

NoEvent == [kind |-> "none", removed |-> NoRule, completed |-> FALSE, rules |-> {},
            shown |-> NoRule, print |-> NoRule, touched |-> FALSE]

\* ufw: a new rule is listed after those of its family; one that is there already is kept.
Inserted(rules) ==
    {table} \cup UNION {{InsertAt(table, i, r) : i \in 1 .. Len(table) + 1} :
                         r \in rules \ ToSet(table)}

\* firewalldRules: the numbers are places in the sorted list.
NumberOf(set, r) == Cardinality({x \in set : x < r}) + 1
firewalldRules(set) == [i \in 1 .. Cardinality(set) |-> CHOOSE r \in set : NumberOf(set, r) = i]

\* What the daemon reads: a disabled UFW lists nothing, a stopped firewalld fails.
Numbered == IF on THEN table ELSE <<>>

\* rule: the text at a number, if the list has it.
rule(n) == IF n \in DOMAIN Numbered THEN Numbered[n] ELSE NoRule

Executing(s) == acts[s].step \in {"reread", "remove", "adding", "apply"}

FwTypeOK ==
    /\ firewalld \in BOOLEAN /\ on \in BOOLEAN
    /\ table \in Seq(Texts) /\ page \in Seq(Texts)
    /\ \A i, j \in DOMAIN table : i < j => table[i] # table[j] /\ (firewalld => table[i] < table[j])
    /\ permanent \subseteq Texts
    /\ ~firewalld => permanent = {}
    /\ firewalld /\ ~on => table = <<>>
    /\ \A s \in FwSlots :
          /\ acts[s].kind \in FwKinds /\ acts[s].step \in FwSteps /\ acts[s].number \in Nat
          /\ acts[s].shown \in Texts \cup {NoRule} /\ acts[s].print \in Texts \cup {NoRule}
          /\ acts[s].rules \subseteq Texts

FwInit ==
    /\ firewalld \in BOOLEAN
    /\ on = TRUE
    /\ \E rules \in SUBSET Texts :
          /\ table = firewalldRules(rules)
          /\ permanent = IF firewalld THEN rules ELSE {}
    /\ page = <<>>
    /\ acts = [s \in FwSlots |-> NoAct]
    /\ event = NoEvent

\* The action of s goes on, or ends without a result, and changes no rule.
Continue(s, op) ==
    /\ acts' = [acts EXCEPT ![s] = op]
    /\ event' = NoEvent
    /\ UNCHANGED <<table, permanent>>

\* The action of s goes on and leaves these rules.  Another whose process is running
\* is touched by the change.
Change(s, op, rules, kept) ==
    /\ table' = rules
    /\ permanent' = kept
    /\ acts' = [t \in FwSlots |->
                  IF t = s THEN op
                  ELSE IF Executing(t) /\ <<rules, kept>> # <<table, permanent>>
                    THEN [acts[t] EXCEPT !.touched = TRUE]
                  ELSE acts[t]]

Happened(s, removed, completed, rules) ==
    event' = [kind |-> acts[s].kind, removed |-> removed, completed |-> completed,
              rules |-> rules, shown |-> acts[s].shown, print |-> acts[s].print,
              touched |-> acts[s].touched]

-----------------------------------------------------------------------------
(* The page and the daemon. *)

\* firewall: the page is loaded.
View ==
    /\ firewalld => on
    /\ page' = Numbered
    /\ event' = NoEvent
    /\ UNCHANGED <<firewalld, on, table, permanent, acts>>

\* firewallAction: the form of a row holds its number.
Click(s, n) ==
    /\ acts[s].step = "idle"
    /\ Continue(s, [NoAct EXCEPT !.kind = "delete", !.step = "check", !.number = n,
                                 !.shown = page[n]])
    /\ UNCHANGED <<firewalld, on, page>>

\* Client.Delete, first call: delete-check answers the fingerprint of that number.
DeleteCheck(s) ==
    LET op == acts[s] IN
    /\ op.step = "check"
    /\ \/ /\ rule(op.number) # NoRule
          /\ Continue(s, [op EXCEPT !.step = "confirm", !.print = rule(op.number)])
       \/ Continue(s, NoAct)
    /\ UNCHANGED <<firewalld, on, page>>

\* Client.Delete, second call: delete compares and schedules, or fails.
Delete(s) ==
    LET op == acts[s] IN
    /\ op.step = "confirm"
    /\ \/ /\ rule(op.number) = op.print
          /\ Continue(s, [op EXCEPT !.step = "timer"])
       \/ Continue(s, NoAct)
    /\ UNCHANGED <<firewalld, on, page>>

\* The other commands are scheduled as they come.  UFW takes a list of ports as one
\* rule, firewalld one rule for each.
Ask(s, kind, rules) ==
    /\ acts[s].step = "idle"
    /\ (kind = "add") = (rules # {})
    /\ ~firewalld => Cardinality(rules) <= 1
    /\ Continue(s, [NoAct EXCEPT !.kind = kind, !.step = "timer", !.rules = rules])
    /\ UNCHANGED <<firewalld, on, page>>

-----------------------------------------------------------------------------
(* Five seconds later. *)

\* systemd starts a process of ours: delete-execute, or add-execute of firewalld.
FireProcess(s) ==
    LET op == acts[s] IN
    /\ op.step = "timer"
    /\ op.kind = "delete" \/ (op.kind = "add" /\ firewalld)
    /\ Continue(s, [op EXCEPT !.step = IF op.kind = "delete" THEN "verify" ELSE "adding"])
    /\ UNCHANGED <<firewalld, on, page>>

\* systemd runs ufw or systemctl itself; the program may fail.
FireProgram(s) ==
    LET op == acts[s]
        state == IF op.kind = "enable" THEN TRUE ELSE IF op.kind = "disable" THEN FALSE ELSE on
    IN
    /\ op.step = "timer"
    /\ op.kind # "delete" /\ ~(op.kind = "add" /\ firewalld)
    /\ \/ /\ on' = state
          /\ \E rules \in IF firewalld THEN {IF state THEN firewalldRules(permanent) ELSE <<>>}
                          ELSE Inserted(op.rules) :
                /\ op.rules \subseteq ToSet(rules)
                /\ Change(s, NoAct, rules, permanent)
          /\ Happened(s, NoRule, TRUE, op.rules)
       \/ Continue(s, NoAct) /\ UNCHANGED on
    /\ UNCHANGED <<firewalld, page>>

\* Mutant: delete-execute trusts what delete compared five seconds earlier.
Verify_Trusting(s) ==
    LET op == acts[s] IN
    /\ op.step = "verify"
    /\ Continue(s, [op EXCEPT !.step = IF firewalld THEN "reread" ELSE "remove"])
    /\ UNCHANGED <<firewalld, on, page>>

\* delete-execute: usage, and the fingerprint once more.
Verify(s) ==
    LET op == acts[s] IN
    /\ op.step = "verify"
    /\ \/ /\ rule(op.number) = op.print
          /\ Continue(s, [op EXCEPT !.step = IF firewalld THEN "reread" ELSE "remove"])
       \/ Continue(s, NoAct)
    /\ UNCHANGED <<firewalld, on, page>>

\* firewalld: the rule is read again, by its number, for its text.
Reread(s) ==
    LET op == acts[s] IN
    /\ op.step = "reread"
    /\ \/ /\ rule(op.number) # NoRule
          /\ Continue(s, [op EXCEPT !.step = "remove", !.rules = {rule(op.number)}])
       \/ Continue(s, NoAct)
    /\ UNCHANGED <<firewalld, on, page>>

\* ufw --force delete <number>.
RemoveNumber(s) ==
    LET op == acts[s] IN
    /\ op.step = "remove" /\ ~firewalld
    /\ \/ /\ op.number \in DOMAIN table
          /\ Change(s, NoAct, RemoveAt(table, op.number), permanent)
          /\ Happened(s, table[op.number], TRUE, {})
       \/ Continue(s, NoAct)
    /\ UNCHANGED <<firewalld, on, page>>

\* firewall-cmd --permanent --remove-...=<text>; a text that is not there is no error.
RemoveText(s) ==
    LET op == acts[s] IN
    /\ op.step = "remove" /\ firewalld
    /\ \/ /\ on
          /\ Change(s, [op EXCEPT !.step = "apply"], table, permanent \ op.rules)
          /\ \E r \in op.rules : Happened(s, r, FALSE, {})
       \/ Continue(s, NoAct)
    /\ UNCHANGED <<firewalld, on, page>>

\* add-execute: one rule after the other; those before a failure stay.
AddText(s) ==
    LET op == acts[s] IN
    /\ op.step = "adding"
    /\ \/ /\ on
          /\ \E r \in op.rules \ permanent : Change(s, op, table, permanent \cup {r})
          /\ event' = NoEvent
       \/ /\ op.rules \subseteq permanent
          /\ Continue(s, [op EXCEPT !.step = "apply"])
       \/ Continue(s, NoAct)
    /\ UNCHANGED <<firewalld, on, page>>

\* Mutant: what was changed is left to the next reload.
Apply_Later(s) ==
    /\ acts[s].step = "apply"
    /\ Change(s, NoAct, table, permanent)
    /\ Happened(s, NoRule, TRUE, acts[s].rules)
    /\ UNCHANGED <<firewalld, on, page>>

\* firewall-cmd --reload: what is permanent comes into force, and nothing else.
Apply(s) ==
    /\ acts[s].step = "apply"
    /\ \/ /\ on
          /\ Change(s, NoAct, firewalldRules(permanent), permanent)
          /\ Happened(s, NoRule, TRUE, acts[s].rules)
       \/ Continue(s, NoAct)
    /\ UNCHANGED <<firewalld, on, page>>

\* Somebody changes the rules with ufw or firewall-cmd.
Outside(r) ==
    /\ \/ table' = table
       \/ \E i \in DOMAIN table : table[i] = r /\ table' = RemoveAt(table, i)
       \/ table' \in IF firewalld THEN {firewalldRules(ToSet(table) \cup {r})} ELSE Inserted({r})
    /\ firewalld => on
    /\ permanent' \in IF firewalld THEN {permanent, permanent \cup {r}, permanent \ {r}} ELSE {{}}
    /\ acts' = [t \in FwSlots |-> IF Executing(t) THEN [acts[t] EXCEPT !.touched = TRUE] ELSE acts[t]]
    /\ event' = NoEvent
    /\ UNCHANGED <<firewalld, on, page>>

Processes(s) ==
    \/ DeleteCheck(s) \/ Delete(s) \/ FireProcess(s) \/ FireProgram(s)
    \/ Verify(s) \/ Reread(s) \/ RemoveNumber(s) \/ RemoveText(s) \/ AddText(s) \/ Apply(s)

FwNext ==
    \/ View
    \/ \E s \in FwSlots, n \in DOMAIN page : Click(s, n)
    \/ \E s \in FwSlots, kind \in FwKinds \ {"delete"}, rules \in SUBSET Texts : Ask(s, kind, rules)
    \/ \E s \in FwSlots : Processes(s)
    \/ \E r \in Texts : Outside(r)

FwSpec == FwInit /\ [][FwNext]_fwVars

-----------------------------------------------------------------------------
\* A deletion removes the rule whose fingerprint was confirmed, however the numbers
\* moved in the five seconds before it ran: unless another change comes between its
\* own last comparison and its removal, which the number alone cannot tell.
ConfirmedIsRemoved ==
    event.removed # NoRule /\ ~event.touched => event.removed = event.print

\* An action that reports completion is in force: the rules it added are, and the one it
\* deleted is neither in force nor comes back with the next reload.
CompletedInForce ==
    event.completed /\ ~event.touched =>
        /\ event.kind = "add" => event.rules \subseteq ToSet(table)
        /\ event.kind = "delete" => event.print \notin ToSet(table) \cup permanent

\* The refusal "La règle UFW a changé" of delete is for this: the rule that a click
\* removes is the one that its row showed.
ShownIsRemoved ==
    event.removed # NoRule /\ ~event.touched => event.removed = event.shown

-----------------------------------------------------------------------------
(* The inductive invariant behind the first two. *)

Act == [kind: FwKinds, step: FwSteps, number: Nat, shown: Texts \cup {NoRule},
        print: Texts \cup {NoRule}, rules: SUBSET Texts, touched: BOOLEAN]

\* What an action knows at each of its steps: until something changes the rules, what its
\* process compared, removed or added is so.
ActInv(op) ==
    /\ op.step \in {"check", "confirm", "verify", "reread", "remove"} => op.kind = "delete"
    /\ op.kind = "delete" /\ op.step \notin {"idle", "check"} => op.print # NoRule
    /\ op.step \in {"adding", "apply"} => op.kind \in {"add", "delete"} /\ firewalld
    /\ op.step = "adding" => op.kind = "add"
    /\ op.step = "reread" => firewalld
    /\ ~op.touched =>
          /\ op.step = "reread" \/ (op.step = "remove" /\ ~firewalld)
                => op.number \in DOMAIN table /\ table[op.number] = op.print
          /\ op.step = "remove" /\ firewalld => op.rules = {op.print}
          /\ op.step = "apply" /\ op.kind = "delete" => op.print \notin permanent
          /\ op.step = "apply" /\ op.kind = "add" => op.rules \subseteq permanent

FwInv ==
    /\ FwTypeOK /\ acts \in [FwSlots -> Act]
    /\ \A s \in FwSlots : ActInv(acts[s])
    /\ ConfirmedIsRemoved /\ CompletedInForce
=============================================================================
