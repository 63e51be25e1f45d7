---------------------------- MODULE MCKafkaUsers ----------------------------
(* Scenarios for KafkaUsers: which specs are applied and what goes wrong. *)
EXTENDS KafkaUsers

Rule(r, ops) == [resource |-> r, ops |-> ops]
U(auth, a, q) == [auth |-> auth, acls |-> a, quotas |-> q, renewers |-> 1, flaw |-> "none"]
Two == Some({Rule("a", {"Read", "Write"})})
One == Some({Rule("a", {"Read"}), Rule("b", {"Read"})})
Q(s) == Some(s)
With(e) == [x \in Event |-> IF x \in e THEN 1 ELSE 0]
S(edits, deletes, time, e) ==
  [edits |-> edits, deletes |-> deletes, time |-> time, max |-> With(e)]
T(r, a) == [U("token", a, None) EXCEPT !.renewers = r]

Lives == {
  \* SCRAM: rules and quotas change, the quotas are dropped from the spec
  S(<<U("sha512", Two, Q({"x"})), U("sha512", One, None)>>, TRUE, 1, {"lost", "abort"}),
  \* another mechanism, an invalid spec in between, a cluster that is not Ready
  S(<<U("sha512", Two, Q({"x"})), [U("sha512", One, None) EXCEPT !.flaw = "rules"],
      U("sha256", None, Q({"y"}))>>, FALSE, 1, {"fail", "refuse", "down"}),
  \* a certificate, and a CA that rotates while the user turns to a password
  S(<<U("tls", One, Q({"x"})), U("sha256", One, None)>>, TRUE, 1, {"age", "rotate"}),
  \* tokens, whose renewers or rules change, up to the end of their lifetime
  S(<<T(1, One), T(2, Two)>>, TRUE, 10, {"lost", "fail"}),
  S(<<T(1, None), T(1, One)>>, FALSE, 10, {"refuse", "abort"}),
  S(<<T(1, One)>>, FALSE, 3, {"lost", "drift"}),
  \* a password made from a token, and then an external certificate
  S(<<T(1, None), U("sha512", None, None), U("external", One, None)>>, FALSE, 2, {"fail"}),
  \* users that are refused, also when they are deleted
  S(<<U("external", Two, Q({"x"})), [U("external", One, None) EXCEPT !.flaw = "label"]>>, TRUE, 1,
    {"fail", "refuse"}),
  S(<<[U("external", One, None) EXCEPT !.flaw = "reserved"]>>, TRUE, 1, {})
}

=============================================================================
