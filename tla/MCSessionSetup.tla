--------------------------- MODULE MCSessionSetup ---------------------------
(* Instances of SessionSetup for TLC. *)
EXTENDS SessionSetup, TLC

\* Every Client_app has a client; with more clients than apps some share one.
EveryAppUsed ==
  CHOOSE f \in [Client -> App] : \A a \in App : \E c \in Client : f[c] = a

\* Sessions, and the clients of one and the same app, are only ever compared.
OneAppSymmetry == Permutations(Session) \cup Permutations(Client)
=============================================================================
