-------------------------- MODULE ConfirmationToken --------------------------
(***************************************************************************)
(* Confirmation tokens (src/core/confirmation-token-service.ts).  A token  *)
(* is the payload and the secret it was signed with: HMAC-SHA256 is taken  *)
(* to be unforgeable, so a signature checks exactly under its own secret.  *)
(* exp and nowSeconds are whole seconds.                                   *)
(***************************************************************************)
EXTENDS Naturals

Issue(secret, plan_hash, exp) ==
    [plan_hash |-> plan_hash, exp |-> exp, secret |-> secret]

Verify(secret, token, plan_hash, nowSeconds) ==
    CASE token.secret # secret -> "invalid"
      [] token.secret = secret /\ token.plan_hash # plan_hash -> "mismatch"
      [] /\ token.secret = secret /\ token.plan_hash = plan_hash
         /\ token.exp <= nowSeconds -> "expired"
      [] OTHER -> "ok"
=============================================================================
