---------------------------- MODULE MCAttribution ---------------------------
(***************************************************************************)
(* Attribution with every query of up to three pairs out of nine: aliases  *)
(* of one field, an empty and an overlong value, click ids of both networks*)
(* and one that is not a paid click.                                       *)
(***************************************************************************)
EXTENDS Attribution, TLC

Pairs ==
  {<<"utm_source", "mail">>, <<"ref", "">>, <<"source", "long">>,
   <<"utm_medium", "email">>, <<"medium", "long">>, <<"utm_term", "limit">>,
   <<"gclid", "1">>, <<"msclkid", "1">>, <<"fbclid", "1">>}
SomePages == UNION {[1 .. n -> Pairs] : n \in 0 .. 3}
SizeOf == [mail |-> 4, long |-> 257, email |-> 5, limit |-> 256] @@ (("" :> 0) @@ ("1" :> 1))

\* Hosts and their domains: in TABLE under two suffixes, in LABEL_TABLE, in
\* neither though alike, an address, a host without a public suffix.
DomainOf ==
  ("www.google.co.uk" :> "google.co.uk") @@ ("fb.com" :> "fb.com") @@
  ("seznam.cz" :> "seznam.cz") @@ ("googleblog.com" :> "googleblog.com") @@
  ("localhost" :> None)
LabelOf == ("google.co.uk" :> "google") @@ ("fb.com" :> "fb") @@
           ("seznam.cz" :> "seznam") @@ ("googleblog.com" :> "googleblog")
CanonicalOf == ("FB.com." :> "fb.com") @@ [h \in DOMAIN DomainOf |-> h]

SomeTexts == UNION {{p[1], p[2]} : p \in Pairs} \union (DOMAIN LabelOf)

SomeReferrers ==
  {None, [scheme |-> "https", host |-> None], [scheme |-> "android-app", host |-> "fb.com"]}
    \union [scheme : {"https"}, host : DOMAIN CanonicalOf \union {"1.2.3.4"}]
=============================================================================
