------------------------------- MODULE MCServices --------------------------------
(***************************************************************************)
(* Small instances of the service modules.  The two configurations set     *)
(* Overlap; some values follow it, since the serial instances can be       *)
(* larger.                                                                 *)
(***************************************************************************)
EXTENDS Services, TLC

CONSTANTS
  ann, bob, cat,      \* addresses
  gem, kit,           \* products
  one, two, three     \* tokens, codes, rows and sockets

Some(small, large) == IF Overlap THEN small ELSE large

MCFallible ==
  {"access", "accounts", "carts", "referrals", "bundles", "records", "rooms", "backups"}
    \cup (IF Overlap THEN {"tickets"} ELSE {})

MCSockets == Some({one}, {one, two})
MCMessages == Some({1, 2}, {1})
MCResetTokens == {one, two}
MCEmails == {ann, bob}
MCProfiles == Some({one}, {one, two})
MCAdminLists ==
  {<<>>, <<ann, bob>>, <<bob, ann>>, <<ann, ann, bob>>, <<ann, bob, ann>>, <<None>>}
MCMaxId == Some(4, 3)
MCProducts == Some({gem}, {gem, kit})
MCMaxItem == Some(2, 3)
MCQuantities == Some({-1, 1}, {-1, 0, 2})
MCCodes == {one, two, three}
MCSlugs == Some({"x"}, {"x", "y"})
MCBundleIds == Some({one}, {one, two})
MCBundleProducts == {gem, kit}
MCRowIds == {one}
MCValues == {1, 2}
MCMaxTime == Some(4, 6)
MCOrders == {one, two}
MCTotal == one :> 2 @@ two :> -1
MCLogRows == {ann, bob}
MCCountries == {cat}
MCQueries == Some({"all"}, {"all", "exclude"})
MCMatches == [q \in MCQueries |-> MCProducts \ (IF q = "all" THEN {} ELSE {gem})]
MCListTtl == Some(2, 1)
MCItemTtl == Some(5, 1)
MCSilent == Overlap

Symmetry == Permutations(Requests)
=============================================================================
