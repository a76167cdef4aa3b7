--------------------------- MODULE MCOwnedRemoval ---------------------------
(* One deployment into a resource group that was there, beside a shared    *)
(* account: a vault and a site of its own, the site's grant on the account *)
(* and, in some deployments or by someone else later, a model in the       *)
(* account.  The output seed claims the group as created.  The records are *)
(* honest but may be incomplete: a receipt lost, something that was there  *)
(* before not listed as such, a protected target or an exception not named.*)
EXTENDS OwnedRemoval, TLC
CONSTANTS group, vault, site, grant, account, other

MCIds == {group, vault, site, grant, account, other}
MCKind == group :> "resource" @@ vault :> "vault" @@ site :> "function"
          @@ grant :> "grant" @@ account :> "account" @@ other :> "resource"
MCInside == group :> {group} @@ vault :> {vault, group} @@ site :> {site, group}
            @@ grant :> {grant, account} @@ account :> {account} @@ other :> {other, account}
MCScope == grant :> account
MCOwner == grant :> site

MCInputs ==
    {[claims |-> claims, there |-> claims \cup {account}, made |-> claims \ {group},
      external |-> outside, preexisting |-> before, listed |-> claims \cup {account},
      protected |-> protected, exceptions |-> exceptions, receipts |-> claims \ ({group} \cup lost),
      guarded |-> guarded, observed |-> observed] :
        claims \in {{group, vault, site, grant}, MCIds \ {account}},
        outside \in SUBSET {account}, before \in SUBSET {group, account},
        protected \in {{account}, {account, group}}, exceptions \in SUBSET {grant},
        lost \in {{}, {site}}, guarded \in BOOLEAN, observed \in {0, FreshFor + 1}}
=============================================================================
