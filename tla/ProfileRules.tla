---------------------------- MODULE ProfileRules ----------------------------
(***************************************************************************)
(* The validation of a browser profile before a TIDAL session and the      *)
(* remediations that follow it (proxy_relay/profile_rules.py).             *)
(*                                                                         *)
(* Abstractions.  Of a profile directory only what the rules look at is    *)
(* kept: whether it holds anything, what its Cookies database says of the  *)
(* datadome cookie, and the .poisoned marker.  A directory that is missing *)
(* and one that is empty fail the same rule and are one.  The age a valid  *)
(* cookie is warned about decides nothing.  Pure operators: BrowseSession  *)
(* uses them.                                                              *)
(***************************************************************************)
EXTENDS Integers

CookieStates ==
    { "none",     \* there is no Cookies database
      "corrupt",  \* it does not open
      "bare",     \* it has no datadome cookie
      "expired",
      "valid" }   \* or a session cookie

Profile == [contents : BOOLEAN, cookies : CookieStates, poisoned : BOOLEAN]

HasCookie(p) == p.cookies \in {"expired", "valid"}

EmptyProfile == [contents |-> FALSE, cookies |-> "none", poisoned |-> FALSE]

\* A marker or a database is something in the directory.
Profiles == {p \in Profile : ~p.contents => p = EmptyProfile}

-----------------------------------------------------------------------------
(***************************************************************************)
(* The rules.                                                              *)
(***************************************************************************)

\* default_registry
Rules == <<"exists", "not_corrupted", "not_poisoned", "cookie_exists", "cookie_not_expired">>

RuleNames == {Rules[i] : i \in 1 .. 5}

\* What evaluate() reports as neither passed nor skipped.
Violates(p, rule) ==
    \/ rule = "exists" /\ ~p.contents
    \/ rule = "not_corrupted" /\ p.cookies = "corrupt"
    \/ rule = "not_poisoned" /\ p.poisoned
    \/ rule = "cookie_exists" /\ p.cookies \in {"corrupt", "bare"}
    \/ rule = "cookie_not_expired" /\ p.cookies = "expired"

\* evaluate_all passes over a rule when one it rests on has failed.
Skips(rule, failed) ==
    \/ rule \in {"not_corrupted", "not_poisoned", "cookie_exists"} /\ "exists" \in failed
    \/ rule \in {"cookie_exists", "cookie_not_expired"} /\ "not_poisoned" \in failed
    \/ rule = "cookie_not_expired" /\ failed \cap {"not_corrupted", "cookie_exists"} # {}

Evaluate(p, failed, rule) ==
    IF ~Skips(rule, failed) /\ Violates(p, rule) THEN failed \cup {rule} ELSE failed

\* The rules in their order, each with the failures of those before it.
EvaluateAll(p) ==
    LET After(failed, i) == Evaluate(p, failed, Rules[i])
    IN  After(After(After(After(After({}, 1), 2), 3), 4), 5)

-----------------------------------------------------------------------------
(***************************************************************************)
(* The remediations.                                                       *)
(***************************************************************************)

\* A poisoned profile also asks for a new IP, which in turn invalidates the cookie.
Remediations(failed) ==
    (IF failed \cap {"exists", "not_corrupted", "not_poisoned"} # {}
     THEN {"delete_profile"} ELSE {})
    \cup (IF failed \cap {"cookie_exists", "cookie_not_expired"} # {}
          THEN {"delete_cookie"} ELSE {})
    \cup (IF "not_poisoned" \in failed THEN {"rotate_ip", "delete_cookie"} ELSE {})

\* Faulty variant: the DELETE matches no row.
CookieNotDeleted(p) == p

\* The DELETE on a database that does not open fails, and the failure is logged.
CookieDeleted(p) == IF HasCookie(p) THEN [p EXCEPT !.cookies = "bare"] ELSE p

\* What the two deletions leave when the given ones succeed.
Remedied(p, remediations, done) ==
    LET q == IF "delete_cookie" \in remediations \cap done THEN CookieDeleted(p) ELSE p
    IN  IF "delete_profile" \in remediations \cap done THEN EmptyProfile ELSE q

=============================================================================
