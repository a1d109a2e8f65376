----------------------------- MODULE MCRegistry -----------------------------
(* Two tenants, a collection and a provider of the first, one of each of the   *)
(* system; a list of the second tenant names the first one's provider.         *)
EXTENDS Registry, TLC

CONSTANTS c0, c1, p0, p1, t1, t2, x1, x2, y1, s1

MCAuthor     == (x1 :> t1) @@ (x2 :> t1) @@ (y1 :> t2) @@ (s1 :> "system")
MCProviderOf == (x1 :> p1) @@ (x2 :> p0) @@ (y1 :> p1) @@ (s1 :> p0)
MCOwner      == (c0 :> "system") @@ (c1 :> t1) @@ (p0 :> "system") @@ (p1 :> t1)
MCText       == (c0 :> s1) @@ (c1 :> x1) @@ (p0 :> s1) @@ (p1 :> x1)
=============================================================================
