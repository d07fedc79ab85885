------------------------------ MODULE MCSignIn ------------------------------
(* SignIn for TLC: two handlers at a time, the flows in groups.             *)
EXTENDS SignIn
CONSTANTS r1, r2, a, b

Group(email, ops, n, m) == [email |-> email, ops |-> ops, calls |-> n, mishaps |-> m]

MCInstances ==
    {Group(a, {"password", "refresh", "change", "reset"}, 5, 1),
     Group(a, {"refresh", "logout", "change", "passkey"}, 5, 1),
     Group(a, {"verify", "email", "logout"}, 6, 1),
     Group(a, {"otp"}, 6, 1),
     Group(a, {"mfa", "password"}, 7, 1),
     Group(a, {"password", "idp"}, 5, 0),
     Group(NoEmail, {"signup", "verify", "idp", "oauth"}, 5, 1)}
==============================================================================
