-------------------------------- MODULE Bank --------------------------------
(***************************************************************************)
(* Coin movements of x/arkeo: the accounts of clients and providers, the   *)
(* three module accounts, and the keeper's wrappers of the bank module.    *)
(* There is one denomination.  A transfer out of a module account is not   *)
(* guarded: the bank would refuse one that overdraws the account, and the  *)
(* invariants on the module balances show that none ever does.             *)
(***************************************************************************)
EXTENDS Integers, FiniteSets, Functions

CONSTANTS
    Users,      \* accounts that open contracts, or are named as delegates
    Providers   \* provider records, one per (public key, service)

ContractName == "contracts"
ProviderName == "providers"
ReserveName  == "arkeo-reserve"

ModuleAccounts == {ContractName, ProviderName, ReserveName}

Accounts == Users \cup Providers \cup ModuleAccounts

ASSUME AccountsDisjoint ==
    /\ ModuleAccounts \cap (Users \cup Providers) = {}
    /\ "" \notin Accounts

\* The chain stores finitely many records at any time.
ASSUME ProvidersFinite == IsFiniteSet(Providers)

\* The balances after one transfer of amount coins.
Send(balances, from, to, amount) ==
    [balances EXCEPT ![from] = @ - amount, ![to] = @ + amount]

\* Mutant: any account that is not empty may send.
HasCoins_NotEmpty(balances, account, amount) == balances[account] > 0

\* SendFromAccountToModule refuses to overdraw an account.
HasCoins(balances, account, amount) == balances[account] >= amount
=============================================================================
