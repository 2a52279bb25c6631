---------------------------- MODULE Diagnostics ----------------------------
(***************************************************************************)
(* The read-only diagnosis of a reference: an intent id, a client order id *)
(* or an exchange order id, looked up in the account a request names or in *)
(* every account of the engine.  The lookups run at the SQL owners of the  *)
(* accounts, a few at a time, each with its own deadline, while accounts   *)
(* come and go and new intents are admitted.  Wording, hints and the       *)
(* counters of a report are left out; the freshness of the account a       *)
(* report speaks of is in SourceHealth.                                    *)
(***************************************************************************)
EXTENDS Naturals, FiniteSets

CONSTANTS
    Accounts,     \* the configured accounts
    SearchLimit,  \* accounts above which a search must name one
    Parallel,     \* lookups in flight at once
    None,         \* no account
    MaxRequests,  \* bound on requests
    MaxFaults     \* bound on changes of availability

SearchAssumption == None \notin Accounts /\ SearchLimit \in Nat /\ Parallel \in Nat \ {0}

VARIABLES
    holders,    \* accounts whose store has an intent with the reference
    available,  \* accounts that can be resolved
    faults,     \* changes of availability so far
    request,    \* the request: the account of its body, of its route, and where it stands
    lookups,    \* per account: not started, asked, hit, miss or unavailable
    report,     \* the answer: a reason and the account it speaks of
    begun       \* history: the holders when the request began

vars == <<holders, available, faults, request, lookups, report, begun>>

Idle == [a \in Accounts |-> "none"]
NoReport == [reason |-> "none", account |-> None]
Request(body, route, pc, n) == [body |-> body, route |-> route, pc |-> pc, n |-> n]

Init ==
    /\ holders \in SUBSET Accounts
    /\ available = Accounts /\ faults = 0
    /\ request = Request(None, None, "idle", 0)
    /\ lookups = Idle
    /\ report = NoReport
    /\ begun = {}

----------------------------------------------------------------------------

Answer(reason, a) ==
    /\ report' = [reason |-> reason, account |-> a]
    /\ request' = [request EXCEPT !.pc = "answered"]

(* diagnostics: a request with the account of its body and of its route,   *)
(* either of which may be missing.                                         *)
Submit ==
    /\ request.pc \in {"idle", "answered"} /\ request.n < MaxRequests
    /\ \E body, route \in Accounts \cup {None} :
           request' = Request(body, route, "route", request.n + 1)
    /\ lookups' = Idle
    /\ report' = NoReport
    /\ begun' = holders
    /\ UNCHANGED <<holders, available, faults>>

Explicit == IF request.body # None THEN request.body ELSE request.route

RouteRefused_mutant == FALSE

(* The body may not name another account than the route it came by.        *)
RouteRefused == request.body # None /\ request.route # None /\ request.body # request.route

SearchTooWide == Cardinality(Accounts) > SearchLimit

CheckRoute ==
    /\ request.pc = "route"
    /\ \/ /\ request.body # None /\ request.route # None
          /\ ~({request.body, request.route} \subseteq available)
          /\ Answer("ACCOUNT_UNAVAILABLE", None)
       \/ /\ RouteRefused
          /\ {request.body, request.route} \subseteq available
          /\ Answer("ACCOUNT_ROUTE_MISMATCH", None)
       \/ /\ ~RouteRefused
          /\ request.body # None /\ request.route # None => {request.body, request.route} \subseteq available
          /\ \/ Explicit # None /\ request' = [request EXCEPT !.pc = "account"] /\ UNCHANGED report
             \/ Explicit = None /\ SearchTooWide /\ Answer("ACCOUNT_REQUIRED_FOR_BOUNDED_SEARCH", None)
             \/ Explicit = None /\ ~SearchTooWide /\ request' = [request EXCEPT !.pc = "search"] /\ UNCHANGED report
    /\ UNCHANGED <<holders, available, faults, lookups, begun>>

----------------------------------------------------------------------------
(* The search over all accounts.                                           *)

Ask_mutant(a) ==
    /\ request.pc = "search" /\ lookups[a] = "none"
    /\ lookups' = [lookups EXCEPT ![a] = IF a \in available THEN "asked" ELSE "unavailable"]
    /\ UNCHANGED <<holders, available, faults, request, report, begun>>

Ask(a) ==
    /\ request.pc = "search" /\ lookups[a] = "none"
    /\ Cardinality({b \in Accounts : lookups[b] = "asked"}) < Parallel
    /\ lookups' = [lookups EXCEPT ![a] = IF a \in available THEN "asked" ELSE "unavailable"]
    /\ UNCHANGED <<holders, available, faults, request, report, begun>>

(* lookup: the three identities of an intent, within the deadline of the   *)
(* SQL owner.                                                              *)
lookup(a) == IF a \in holders THEN "hit" ELSE "miss"

Looked_mutant(a) ==
    /\ request.pc = "search" /\ lookups[a] = "asked" /\ a \in available
    /\ lookups' = [lookups EXCEPT ![a] = lookup(a)]
    /\ UNCHANGED <<holders, available, faults, request, report, begun>>

Looked(a) ==
    /\ request.pc = "search" /\ lookups[a] = "asked"
    /\ \E outcome \in {lookup(a), "unavailable"} :
           lookups' = [lookups EXCEPT ![a] = outcome]
    /\ UNCHANGED <<holders, available, faults, request, report, begun>>

Found == {a \in Accounts : lookups[a] = "hit"}
Incomplete == {a \in Accounts : lookups[a] = "unavailable"}

Settle_mutant ==
    /\ request.pc = "search"
    /\ \A a \in Accounts : lookups[a] \notin {"none", "asked"}
    /\ \/ Cardinality(Found) > 1 /\ Answer("REFERENCE_AMBIGUOUS", None)
       \/ Cardinality(Found) <= 1 /\ Incomplete # {} /\ Found = {} /\ Answer("REFERENCE_SEARCH_INCOMPLETE", None)
       \/ /\ Cardinality(Found) = 1
          /\ \E a \in Found : request' = [request EXCEPT !.pc = "account", !.body = a]
          /\ UNCHANGED report
       \/ Found = {} /\ Incomplete = {} /\ Answer("REFERENCE_NOT_FOUND", None)
    /\ UNCHANGED <<holders, available, faults, lookups, begun>>

Settle_blind ==
    /\ request.pc = "search"
    /\ \A a \in Accounts : lookups[a] \notin {"none", "asked"}
    /\ \/ Cardinality(Found) > 1 /\ Answer("REFERENCE_AMBIGUOUS", None)
       \/ Found = {} /\ Answer("REFERENCE_NOT_FOUND", None)
    /\ UNCHANGED <<holders, available, faults, lookups, begun>>

Settle ==
    /\ request.pc = "search"
    /\ \A a \in Accounts : lookups[a] \notin {"none", "asked"}
    /\ \/ Cardinality(Found) > 1 /\ Answer("REFERENCE_AMBIGUOUS", None)
       \/ Cardinality(Found) <= 1 /\ Incomplete # {} /\ Answer("REFERENCE_SEARCH_INCOMPLETE", None)
       \/ /\ Cardinality(Found) = 1 /\ Incomplete = {}
          /\ \E a \in Found : request' = [request EXCEPT !.pc = "account", !.body = a]
          /\ UNCHANGED report
       \/ Found = {} /\ Incomplete = {} /\ Answer("REFERENCE_NOT_FOUND", None)
    /\ UNCHANGED <<holders, available, faults, lookups, begun>>

(* account_diagnostics looks the reference up again in the one account.    *)
Describe ==
    /\ request.pc = "account"
    /\ LET a == Explicit
       IN  \/ /\ a \notin available /\ lookups = Idle
              /\ Answer("ACCOUNT_UNAVAILABLE", a)
           \/ /\ a \in available \/ lookups # Idle
              /\ \/ Answer("ACCOUNT_STORAGE_UNAVAILABLE", a)
                 \/ lookup(a) = "hit" /\ Answer("INTENT_OBSERVED", a)
                 \/ lookup(a) = "miss" /\ Answer("REFERENCE_NOT_FOUND", a)
    /\ UNCHANGED <<holders, available, faults, lookups, begun>>

----------------------------------------------------------------------------
(* The accounts meanwhile.                                                 *)

Admit(a) ==
    /\ a \notin holders
    /\ holders' = holders \cup {a}
    /\ UNCHANGED <<available, faults, request, lookups, report, begun>>

Lose(a) ==
    /\ a \in available /\ faults < MaxFaults
    /\ available' = available \ {a} /\ faults' = faults + 1
    /\ UNCHANGED <<holders, request, lookups, report, begun>>

Recover(a) ==
    /\ a \notin available
    /\ available' = available \cup {a}
    /\ UNCHANGED <<holders, faults, request, lookups, report, begun>>

Work ==
    \/ CheckRoute \/ Settle \/ Describe
    \/ \E a \in Accounts : Ask(a) \/ Looked(a)

Next ==
    \/ Submit \/ Work
    \/ \E a \in Accounts : Admit(a) \/ Lose(a) \/ Recover(a)

(* Every lookup ends by the deadline of its call, three seconds.           *)
Spec == Init /\ [][Next]_vars /\ WF_vars(Work)

----------------------------------------------------------------------------
(* Properties.                                                             *)

(* Requests, lookups and reports keep their types.                         *)
TypeOK ==
    /\ holders \subseteq Accounts /\ available \subseteq Accounts
    /\ request.pc \in {"idle", "route", "account", "search", "answered"}
    /\ lookups \in [Accounts -> {"none", "asked", "hit", "miss", "unavailable"}]
    /\ report.account \in Accounts \cup {None}
    /\ Cardinality({a \in Accounts : lookups[a] = "asked"}) <= Parallel

Searched == request.pc = "answered" /\ request.route = None /\ lookups # Idle

(* An account that a search answers with is the only one that held the     *)
(* reference when the search began: an account that could not be read is   *)
(* never taken for one that does not hold it.                              *)
FoundIsUnique ==
    Searched /\ report.reason = "INTENT_OBSERVED" => begun \subseteq {report.account}

(* A search says that a reference does not exist only when no account held *)
(* it when the search began.                                               *)
NotFoundIsTrue ==
    Searched /\ report.reason = "REFERENCE_NOT_FOUND" => begun = {}

(* A request that came by the route of an account is never answered with   *)
(* another account.                                                        *)
RouteIsKept ==
    request.route # None => report.account \in {request.route, None}

(* Every request is answered.                                              *)
EveryRequestAnswered ==
    \A n \in 1 .. MaxRequests : request.n = n ~> request.n # n \/ request.pc = "answered"

============================================================================
