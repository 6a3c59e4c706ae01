---------------------------- MODULE MCJwtToRbac ----------------------------
(* Users and configurations for the run of JwtToRbac. *)
EXTENDS JwtToRbac

Ldap(email, groups) ==
  [connector |-> "ldap", id |-> <<"cn">>, email |-> email, groups |-> groups]
Github(id, groups) ==
  [connector |-> "github", id |-> id, email |-> <<"x", "@", "y">>, groups |-> groups]

\* The binding of Bob's role of other-dev and that of Ann's role of dev share their
\* name.
Bob == Github(<<"17">>, {<<"org", ":", "admins">>, <<"other", ":", "dev">>})
Ann == Ldap(<<"17", "@", "other">>, {<<"dev">>, <<"nobody">>})
SomeUsers == {Ann, Bob}

OtherDev == <<"other", "-", "dev">>
Before == [githubOrg |-> <<"org">>,
           custom |-> [g \in {<<"dev">>, OtherDev} |-> "rules1"]]
After == [githubOrg |-> <<"new">>, custom |-> [g \in {OtherDev} |-> "rules2"]]
TwoConfigs == {Before, After}
=============================================================================
