--------------------------- MODULE MCProxyExecute ---------------------------
(***************************************************************************)
(* Two requests that contend for one route.  q1 goes on to a second route  *)
(* of the same credential and then to one whose credential is gone;        *)
(* q2 has no other route.  The credential may be removed for a while, and  *)
(* another account of the provider then serves its routes.  Both requests  *)
(* need a structured-output probe of the contended route.                  *)
(***************************************************************************)
EXTENDS ProxyExecute, TLC

CONSTANTS q1, q2, shop, spare, gone, k1, k2, k3, chat, messages

TwoRequests == {q1, q2}
ThreeRoutes == {shop, spare, gone}
ThreeKeys == {k1, k2, k3}
TwoFormats == {chat, messages}

On(r, n) == [route |-> r, retries |-> n]
Plans == (q1 :> <<On(shop, 1), On(spare, 0), On(gone, 0)>>) @@
         (q2 :> <<On(shop, 1)>>)
Orders == (q1 :> <<chat, messages>>) @@ (q2 :> <<messages, chat>>)
CredentialOf == (shop :> k1) @@ (spare :> k1) @@ (gone :> k3)
Accounts == (k1 :> "provider") @@ (k2 :> "provider") @@ (k3 :> "removed")
OneHint == (k1 :> NoFormat) @@ (k2 :> messages) @@ (k3 :> NoFormat)
OneUnusable == {<<q2, chat>>}

(* One failure for each pair of answers of shouldTryNextFormat and Decide.  *)
(* shouldTryNextFormat reads the status alone: a quota error that comes as  *)
(* a 404, 422 or 5xx is evidence to it.                                     *)
Fails(class, evidence) == [class |-> class, evidence |-> evidence]
SomeFailures == {Fails("server", TRUE), Fails("rate_limit", FALSE),
                 Fails("invalid_request", TRUE),
                 Fails("quota_exhausted", FALSE), Fails("quota_exhausted", TRUE)}
=============================================================================
