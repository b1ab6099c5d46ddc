------------------------- MODULE MarketEscrowProofs -------------------------
(***************************************************************************)
(* The market implements the escrow, and a settlement is final.  Every     *)
(* step leaves the records and the ledger alone, opens one contract, or    *)
(* settles a set of contracts: one, not finally, or any number that were   *)
(* not settled, finally.  From the same steps: what a provider was paid    *)
(* agrees with the calls that were signed and the blocks that passed, and  *)
(* a spender has one running subscription with a provider.  And the        *)
(* balances agree with the records: no account is overdrawn, and the       *)
(* module accounts hold what is left of the deposits and the bonds.        *)
(***************************************************************************)
EXTENDS MarketProofs

-----------------------------------------------------------------------------
(* The balances *)

\* A sum of natural numbers is one, and none of them exceeds it.
NatSums ==
    \A S, f : IsFiniteSet(S) /\ (\A x \in S : f[x] \in Nat) =>
               /\ SumFunctionOnSet(f, S) \in Nat
               /\ \A x \in S : f[x] <= SumFunctionOnSet(f, S)

\* Nothing adds up to nothing.
ZeroSums ==
    \A S, f : IsFiniteSet(S) /\ (\A x \in S : f[x] = 0) => SumFunctionOnSet(f, S) = 0

\* The sum of functions is the sum of their sums.
AddedSums ==
    \A S, f, g, h :
        IsFiniteSet(S) /\ (\A x \in S : f[x] \in Int /\ g[x] \in Int /\ h[x] = f[x] + g[x]) =>
        SumFunctionOnSet(h, S) = SumFunctionOnSet(f, S) + SumFunctionOnSet(g, S)

\* Elements that add nothing can be left out.
PartSums ==
    \A S, A, f :
        /\ IsFiniteSet(S) /\ A \in SUBSET S
        /\ \A x \in S : f[x] \in Int /\ (x \notin A => f[x] = 0)
        => SumFunctionOnSet(f, A) = SumFunctionOnSet(f, S)

\* Functions that agree have the same sum.
SameSums ==
    \A S, f, g : IsFiniteSet(S) /\ (\A x \in S : f[x] \in Int /\ f[x] = g[x]) =>
                  SumFunctionOnSet(f, S) = SumFunctionOnSet(g, S)

\* Changing one element changes the sum by as much.
ChangedSums ==
    \A S, f, g, e :
        /\ IsFiniteSet(S) /\ e \in S
        /\ \A x \in S : f[x] \in Int /\ g[x] \in Int
        /\ \A x \in S \ {e} : f[x] = g[x]
        => SumFunctionOnSet(g, S) = SumFunctionOnSet(f, S) + g[e] - f[e]

\* Sets of contracts are finite, as the sums over them require.
FiniteSums == \A P \in SUBSET Ids : IsFiniteSet(P)

\* What the balances need of sums over finite sets.  The lemmas take it as a
\* hypothesis; SumFactsHold, at the end, has it from SumTheorems.
SumFacts == /\ FiniteSums /\ NatSums /\ ZeroSums
            /\ AddedSums /\ PartSums /\ SameSums /\ ChangedSums

\* The balances agree with the records: no account is overdrawn, and the two module
\* accounts hold what is left of the deposits and the bonds.
Balanced == NoOverdraft /\ ContractModuleBacked /\ BondModuleBacked

\* What is left of the deposit of every contract.
Left == [id \in Ids |-> contracts[id].deposit - contracts[id].paid]

\* What is left of one deposit, before and after a step.
LEMMA LeftIs ==
    \A id \in Ids : /\ Left[id] = contracts[id].deposit - contracts[id].paid
                    /\ Left'[id] = contracts'[id].deposit - contracts'[id].paid
  BY DEF Left

\* Something is left or nothing, never less.
LEMMA LeftNat ==
    ASSUME TypeOK, DepositAccounted
    PROVE  \A id \in Ids : Left[id] \in Nat
<1> SUFFICES ASSUME NEW id \in Ids PROVE contracts[id].deposit - contracts[id].paid \in Nat
  BY DEF Left
<1>1. contracts[id].deposit \in Nat /\ contracts[id].paid \in Nat
  BY DEF TypeOK, Contract, EmptyContract
<1>2. contracts[id].paid <= contracts[id].deposit
  BY DEF DepositAccounted
<1> QED
  BY <1>1, <1>2

\* What one settlement adds to an account: only the contract module pays.
LEMMA CreditBounds ==
    ASSUME NEW s, s.contract \in Contract, {s.provider, s.reserve, s.client} \subseteq Nat,
           NEW a \in Accounts
    PROVE  /\ a # ContractName => Credit(s, a) \in Nat
           /\ a = ProviderName => Credit(s, a) = 0
           /\ a = ContractName => Credit(s, a) = -(s.provider + s.reserve + s.client)
<1>1. /\ s.contract.provider \in Providers /\ s.contract.client \in Users
      /\ s.provider \in Nat /\ s.reserve \in Nat /\ s.client \in Nat
  BY DEF Contract
<1>2. /\ s.contract.provider \notin ModuleAccounts /\ s.contract.client \notin ModuleAccounts
      /\ ContractName \in ModuleAccounts /\ ProviderName \in ModuleAccounts
      /\ ContractName # ReserveName /\ ProviderName # ReserveName
      /\ ContractName # ProviderName
  BY <1>1, AccountsDisjoint, ZenonT(60) DEF ModuleAccounts, ContractName, ProviderName, ReserveName
<1>3. CASE a = ContractName
  BY <1>1, <1>2, <1>3 DEF Credit
<1>4. CASE a = ProviderName
  BY <1>1, <1>2, <1>4 DEF Credit
<1>5. CASE a # ContractName /\ a # ProviderName
  BY <1>1, <1>2, <1>5 DEF Credit
<1> QED
  BY <1>2, <1>3, <1>4, <1>5

\* Settling a set of contracts keeps the balances in agreement: what the contract
\* module sends is what the records lose, the other accounts only gain.
LEMMA PayOutBalanced ==
    ASSUME SumFacts, TypeOK, DepositAccounted, Balanced,
           NEW P \in SUBSET Ids, NEW S \in SUBSET P,
           \A id \in P : Exists(id), \A id \in P \ S : Settled(id),
           NEW nonce \in 0 .. MaxNonce, NEW isFinal \in BOOLEAN,
           PayOut(P, nonce, isFinal), Record(S, nonce, isFinal), UNCHANGED providers
    PROVE  Balanced'
<1> DEFINE s      == [id \in P |-> SettleContract(contracts[id], nonce, isFinal)]
           cr(a)  == [id \in P |-> Credit(s[id], a)]
           sent   == [id \in Ids |-> IF id \in P THEN Credit(s[id], ContractName) ELSE 0]
<1>1. bank' = [a \in Accounts |-> bank[a] + SumFunctionOnSet(cr(a), P)]
  BY ZenonT(60) DEF PayOut
<1>2. \A id \in Ids : contracts'[id] = IF id \in S THEN s[id].contract ELSE contracts[id]
  BY DEF Record
<1>3. /\ IsFiniteSet(Ids) /\ IsFiniteSet(P)
      /\ ContractName \in Accounts /\ ProviderName \in Accounts
  BY DEF SumFacts, FiniteSums, Accounts, ModuleAccounts
<1>4. \A id \in P : /\ contracts[id] \in Contract
                    /\ contracts[id].deposit \in Nat /\ contracts[id].paid \in Nat
                    /\ contracts[id].paid <= contracts[id].deposit
  BY StoredType DEF DepositAccounted, Contract
<1>5. ASSUME NEW id \in P
      PROVE  /\ s[id].contract \in Contract
             /\ {s[id].provider, s[id].reserve, s[id].client} \subseteq Nat
             /\ s[id].contract.paid = contracts[id].paid + s[id].provider + s[id].reserve
             /\ s[id].contract.deposit = contracts[id].deposit - s[id].client
             /\ contracts[id].paid = contracts[id].deposit =>
                  s[id].provider = 0 /\ s[id].reserve = 0 /\ s[id].client = 0
  <2>1. height \in Heights
    BY DEF TypeOK
  <2> DEFINE t == SettleContract(contracts[id], nonce, isFinal)
  <2>2. s[id] = t
    OBVIOUS
  <2>3. contracts[id] \in Contract /\ contracts[id].paid <= contracts[id].deposit
    BY <1>4
  <2> HIDE DEF s
  <2>4. /\ t.contract \in Contract
        /\ {t.provider, t.reserve, t.client} \subseteq Nat
        /\ t.contract.paid = contracts[id].paid + t.provider + t.reserve
        /\ t.contract.deposit = contracts[id].deposit - t.client
        /\ contracts[id].paid = contracts[id].deposit =>
             t.provider = 0 /\ t.reserve = 0 /\ t.client = 0
    BY <2>1, <2>3, SettleEffect, ZenonT(60)
  <2> HIDE DEF t
  <2> QED
    BY <2>2, <2>4
<1> HIDE DEF s
<1>6. ASSUME NEW a \in Accounts, NEW id \in P
      PROVE  /\ a # ContractName => cr(a)[id] \in Nat
             /\ a = ProviderName => cr(a)[id] = 0
             /\ a = ContractName => cr(a)[id] = -(s[id].provider + s[id].reserve + s[id].client)
  BY <1>5, CreditBounds
<1>sent. \A id \in Ids : sent[id] = IF id \in P THEN cr(ContractName)[id] ELSE 0
  OBVIOUS
<1> HIDE DEF sent, cr
<1>7. \A a \in Accounts : bank[a] \in Nat
  BY DEF Balanced, NoOverdraft
<1>8. ASSUME NEW a \in Accounts, a # ContractName
      PROVE  /\ SumFunctionOnSet(cr(a), P) \in Nat
             /\ a = ProviderName => SumFunctionOnSet(cr(a), P) = 0
  <2>1. \A id \in P : cr(a)[id] \in Nat
    BY <1>6, <1>8
  <2>2. a = ProviderName => \A id \in P : cr(a)[id] = 0
    BY <1>6
  <2> QED
    BY <1>3, <2>1, <2>2 DEF SumFacts, NatSums, ZeroSums
<1>9. ASSUME NEW id \in Ids
      PROVE  /\ sent[id] \in Int /\ Left'[id] = Left[id] + sent[id]
             /\ id \notin P => sent[id] = 0
             /\ id \in P => cr(ContractName)[id] \in Int /\ cr(ContractName)[id] = sent[id]
  <2>1. CASE id \notin P
    <3>1. contracts'[id] = contracts[id] /\ sent[id] = 0
      BY <1>2, <1>sent, <2>1
    <3>2. Left[id] \in Nat
      BY LeftNat
    <3>3. Left'[id] = Left[id]
      BY <3>1, LeftIs
    <3> QED
      BY <2>1, <3>1, <3>2, <3>3
  <2>2. CASE id \in P
    <3> DEFINE p == s[id].provider  r == s[id].reserve  c == s[id].client
    <3>1. p \in Nat /\ r \in Nat /\ c \in Nat
      BY <1>5, <2>2
    <3>2. sent[id] = -(p + r + c) /\ cr(ContractName)[id] = sent[id]
      BY <1>3, <1>6, <1>sent, <2>2
    <3>amounts. contracts[id].deposit \in Nat /\ contracts[id].paid \in Nat
      BY <1>4, <2>2
    <3>3. CASE id \in S
      <4>1. /\ contracts'[id].paid = contracts[id].paid + p + r
            /\ contracts'[id].deposit = contracts[id].deposit - c
        BY <1>2, <1>5, <2>2, <3>3
      <4> HIDE DEF p, r, c
      <4> QED
        BY <2>2, <3>amounts, <3>1, <3>2, <4>1, LeftIs
    <3>4. CASE id \notin S
      <4>1. contracts'[id] = contracts[id] /\ contracts[id].paid = contracts[id].deposit
        BY <1>2, <2>2, <3>4, ZenonT(60) DEF DepositAccounted
      <4>2. p = 0 /\ r = 0 /\ c = 0
        BY <1>5, <2>2, <4>1
      <4> HIDE DEF p, r, c
      <4> QED
        BY <2>2, <3>amounts, <3>2, <4>1, <4>2, LeftIs
    <3> QED
      BY <3>3, <3>4, ZenonT(60)
  <2> QED
    BY <2>1, <2>2
<1>10. SumFunctionOnSet(Left', Ids) = SumFunctionOnSet(Left, Ids)
                                         + SumFunctionOnSet(cr(ContractName), P)
  <2>1. \A id \in Ids : Left[id] \in Int
    BY LeftNat
  <2>2. SumFunctionOnSet(Left', Ids) = SumFunctionOnSet(Left, Ids) + SumFunctionOnSet(sent, Ids)
    BY <1>3, <1>9, <2>1 DEF SumFacts, AddedSums
  <2>3. SumFunctionOnSet(sent, P) = SumFunctionOnSet(sent, Ids)
    BY <1>3, <1>9 DEF SumFacts, PartSums
  <2>4. SumFunctionOnSet(cr(ContractName), P) = SumFunctionOnSet(sent, P)
    BY <1>3, <1>9 DEF SumFacts, SameSums
  <2> QED
    BY <2>2, <2>3, <2>4
<1>11. ContractModuleBacked'
  <2>1. bank[ContractName] = SumFunctionOnSet(Left, Ids)
    BY DEF Balanced, ContractModuleBacked, Left
  <2>2. bank'[ContractName] = SumFunctionOnSet(Left', Ids)
    BY <1>1, <1>3, <1>10, <2>1
  <2> QED
    BY <2>2 DEF ContractModuleBacked, Left
<1>12. SumFunctionOnSet(Left', Ids) \in Nat
  <2>1. Touched(S, isFinal)
    BY SettleStep
  <2>2. ASSUME NEW id \in Ids PROVE Left'[id] \in Nat
    <3>1. contracts'[id].paid <= contracts'[id].deposit
      BY <1>2, <2>1, ZenonT(60) DEF Touched, Accounted, DepositAccounted
    <3>2. contracts'[id].deposit \in Nat /\ contracts'[id].paid \in Nat
      BY <2>1 DEF Touched, Contract, EmptyContract
    <3> QED
      BY <3>1, <3>2, LeftIs
  <2> QED
    BY <1>3, <2>2 DEF SumFacts, NatSums
<1>13. NoOverdraft'
  <2> SUFFICES ASSUME NEW a \in Accounts PROVE bank'[a] \in Nat
    BY <1>1 DEF NoOverdraft
  <2>1. CASE a = ContractName
    BY <1>11, <1>12, <2>1 DEF ContractModuleBacked, Left
  <2>2. CASE a # ContractName
    BY <1>1, <1>7, <1>8, <2>2
  <2> QED
    BY <2>1, <2>2
<1>14. BondModuleBacked'
  <2>1. bank'[ProviderName] = bank[ProviderName] /\ ProviderName # ContractName
    <3>1. ProviderName # ContractName
      BY DEF ProviderName, ContractName
    <3>2. SumFunctionOnSet(cr(ProviderName), P) = 0
      BY <1>3, <1>8, <3>1
    <3> QED
      BY <1>1, <1>3, <1>7, <3>1, <3>2
  <2> QED
    BY <2>1 DEF Balanced, BondModuleBacked
<1> QED
  BY <1>11, <1>13, <1>14 DEF Balanced

\* The accounts are empty and nothing is recorded when the chain starts.
LEMMA InitBalanced ==
    ASSUME SumFacts, Init
    PROVE  Balanced
<1>1. /\ bank = [a \in Accounts |-> IF a \in ModuleAccounts THEN 0 ELSE InitialBalance]
      /\ providers = [p \in Providers |-> NewProvider]
      /\ contracts = [id \in Ids |-> EmptyContract]
  BY DEF Init, RegistryInit, ContractsInit
<1>2. bank[ContractName] = 0 /\ bank[ProviderName] = 0
  BY <1>1 DEF Accounts, ModuleAccounts
<1>3. NoOverdraft
  BY <1>1, RegistryAssumptions DEF NoOverdraft
<1> DEFINE bonds == [p \in Providers |-> providers[p].bond]
<1>4. \A p \in Providers : bonds[p] = 0
  BY <1>1 DEF NewProvider
<1>5. \A id \in Ids : Left[id] = 0
  BY <1>1 DEF Left, EmptyContract
<1> HIDE DEF bonds
<1>6. SumFunctionOnSet(bonds, Providers) = 0 /\ SumFunctionOnSet(Left, Ids) = 0
  BY <1>4, <1>5, ProvidersFinite DEF SumFacts, FiniteSums, ZeroSums
<1>7. ContractModuleBacked
  BY <1>2, <1>6 DEF ContractModuleBacked, Left
<1>8. BondModuleBacked
  BY <1>2, <1>6 DEF BondModuleBacked, bonds
<1> QED
  BY <1>3, <1>7, <1>8 DEF Balanced

\* Bonding moves to the provider module what the record gains; unbonding cannot
\* overdraw it, because it holds the bond of this provider among the others.
LEMMA BondBalanced ==
    ASSUME SumFacts, TypeOK, Balanced, NEW p \in Providers, NEW bond \in Bonds, BondProvider(p, bond),
           UNCHANGED contractVars
    PROVE  Balanced'
<1> DEFINE bonds == [q \in Providers |-> providers[q].bond]
           next  == [q \in Providers |-> providers'[q].bond]
<1>1. /\ bond \in Int /\ p \in Accounts /\ ProviderName \in Accounts /\ p # ProviderName
      /\ ContractName \in Accounts /\ ContractName # ProviderName /\ p # ContractName
  BY RegistryAssumptions, AccountsDisjoint, ZenonT(60)
     DEF Accounts, ModuleAccounts, ProviderName, ContractName
<1>2. /\ providers \in [Providers -> ProviderRecord]
      /\ \A q \in Providers : providers[q].bond \in Nat
  BY DEF TypeOK, ProviderRecord
<1>3. /\ bank \in [Accounts -> Nat]
      /\ bank[ProviderName] = SumFunctionOnSet(bonds, Providers)
  BY DEF Balanced, NoOverdraft, BondModuleBacked
<1>4. /\ bank'[p] = bank[p] - bond /\ bank'[ProviderName] = bank[ProviderName] + bond
      /\ bank' \in [Accounts -> Int]
      /\ \A a \in Accounts \ {p, ProviderName} : bank'[a] = bank[a]
  BY <1>1, <1>3 DEF BondProvider, Send
<1>5. /\ next[p] = bonds[p] + bond
      /\ \A q \in Providers \ {p} : bonds[q] = next[q]
  BY <1>1, <1>2 DEF BondProvider, SetProvider, NewProvider, ProviderRecord
<1>6. /\ \A q \in Providers : bonds[q] \in Int /\ next[q] \in Int
      /\ \A q \in Providers : bonds[q] \in Nat
      /\ bonds[p] = providers[p].bond
  BY <1>1, <1>2, <1>5
<1> HIDE DEF bonds, next
<1>7. SumFunctionOnSet(next, Providers) = SumFunctionOnSet(bonds, Providers) + next[p] - bonds[p]
  <2>1. /\ \A q \in Providers : bonds[q] \in Int /\ next[q] \in Int
        /\ \A q \in Providers \ {p} : bonds[q] = next[q]
    BY <1>5, <1>6
  <2> QED
    BY <2>1, ProvidersFinite DEF SumFacts, ChangedSums
<1>8. SumFunctionOnSet(bonds, Providers) \in Nat /\ bonds[p] <= SumFunctionOnSet(bonds, Providers)
  BY <1>6, ProvidersFinite DEF SumFacts, NatSums
<1>9. BondModuleBacked'
  <2>1. bank'[ProviderName] = SumFunctionOnSet(next, Providers)
    BY <1>1, <1>3, <1>4, <1>5, <1>6, <1>7, <1>8
  <2> QED
    BY <2>1 DEF BondModuleBacked, next
<1>10. bank'[p] \in Nat /\ bank'[ProviderName] \in Nat
  BY <1>1, <1>3, <1>4, <1>6, <1>8 DEF BondProvider, HasCoins
<1>11. NoOverdraft'
  BY <1>3, <1>4, <1>10 DEF NoOverdraft
<1>12. ContractModuleBacked'
  BY <1>1, <1>4 DEF Balanced, ContractModuleBacked, contractVars
<1> QED
  BY <1>9, <1>11, <1>12 DEF Balanced

\* ModProvider leaves the bond of the record alone.
LEMMA ModBalanced ==
    ASSUME TypeOK, Balanced, NEW p \in Providers, NEW o \in Offers, ModProvider(p, o),
           UNCHANGED contractVars
    PROVE  Balanced'
<1>1. providers \in [Providers -> ProviderRecord]
  BY DEF TypeOK
<1>2. \A q \in Providers : providers'[q].bond = providers[q].bond
  BY <1>1 DEF ModProvider, SetProvider, Modified, NewProvider, ProviderRecord
<1>3. [q \in Providers |-> providers'[q].bond] = [q \in Providers |-> providers[q].bond]
  BY <1>2
<1>4. bank' = bank /\ contracts' = contracts
  BY DEF ModProvider, contractVars
<1>5. BondModuleBacked'
  BY <1>3, <1>4 DEF Balanced, BondModuleBacked
<1> QED
  BY <1>4, <1>5 DEF Balanced, NoOverdraft, ContractModuleBacked

\* Opening a contract moves its deposit to the contract module.
LEMMA OpenBalanced ==
    ASSUME SumFacts, IInv, Balanced, NEW r \in Requests, NEW p \in Providers, NEW client \in Users,
           NEW delegate \in Users \cup {EmptyPubKey}, OpenContract(r, p, client, delegate)
    PROVE  Balanced'
<1> DEFINE c == NewContract(r, p, client, delegate)
<1>1. PICK n \in Ids : n = nextId
  BY DEF OpenContract
<1>2. /\ OpenContractValidate(r, p, GetSpender(c))
      /\ HasCoins(bank, client, OpenContractCost + r.deposit)
      /\ bank' = Send(Send(bank, client, ReserveName, OpenContractCost),
                      client, ContractName, r.deposit)
      /\ contracts' = [contracts EXCEPT ![n] = c]
      /\ providers' = providers
  BY <1>1 DEF OpenContract
<1>3. /\ TypeOK /\ DepositAccounted /\ height \in Heights
      /\ contracts \in [Ids -> Contract \cup {EmptyContract}] /\ contracts[n] = EmptyContract
  BY <1>1 DEF IInv, TypeOK, Ids
<1>4. c \in Contract /\ c.paid = 0 /\ c.deposit = r.deposit
  BY <1>2, <1>3, NewContractType
<1> HIDE DEF c
<1>5. r.deposit \in Nat /\ OpenContractCost \in Nat
  BY <1>4, MarketAssumptions, ZenonT(60) DEF Contract
<1>6. /\ {client, ContractName, ReserveName, ProviderName} \subseteq Accounts
      /\ client # ContractName /\ client # ReserveName /\ client # ProviderName
      /\ ContractName # ReserveName /\ ContractName # ProviderName /\ ReserveName # ProviderName
  BY AccountsDisjoint, ZenonT(60)
     DEF Accounts, ModuleAccounts, ProviderName, ContractName, ReserveName
<1>7. bank \in [Accounts -> Nat]
  BY DEF Balanced, NoOverdraft
<1>8. /\ bank' \in [Accounts -> Int]
      /\ bank'[client] = bank[client] - OpenContractCost - r.deposit
      /\ bank'[ContractName] = bank[ContractName] + r.deposit
      /\ bank'[ReserveName] = bank[ReserveName] + OpenContractCost
      /\ \A a \in Accounts \ {client, ContractName, ReserveName} : bank'[a] = bank[a]
  BY <1>2, <1>5, <1>6, <1>7 DEF Send
<1>9. NoOverdraft'
  <2>1. bank'[client] \in Nat /\ bank'[ContractName] \in Nat /\ bank'[ReserveName] \in Nat
    BY <1>2, <1>5, <1>6, <1>7, <1>8 DEF HasCoins
  <2> QED
    BY <1>7, <1>8, <2>1 DEF NoOverdraft
<1>10. BondModuleBacked'
  BY <1>2, <1>6, <1>8 DEF Balanced, BondModuleBacked
<1>11. /\ \A id \in Ids : Left[id] \in Nat /\ Left'[id] \in Int
       /\ \A id \in Ids \ {n} : Left[id] = Left'[id]
       /\ Left[n] = 0 /\ Left'[n] = r.deposit
  <2>1. \A id \in Ids : Left[id] \in Nat
    BY <1>3, LeftNat
  <2>2. \A id \in Ids \ {n} : contracts'[id] = contracts[id]
    BY <1>2, <1>3
  <2>3. contracts'[n] = c /\ contracts[n] = EmptyContract
    BY <1>2, <1>3
  <2>4. Left[n] = 0 /\ Left'[n] = r.deposit
    BY <1>4, <1>5, <2>3, LeftIs DEF EmptyContract
  <2>5. \A id \in Ids \ {n} : Left[id] = Left'[id]
    BY <2>2, LeftIs
  <2> QED
    BY <1>5, <2>1, <2>4, <2>5
<1>12. SumFunctionOnSet(Left', Ids) = SumFunctionOnSet(Left, Ids) + Left'[n] - Left[n]
  <2>1. /\ IsFiniteSet(Ids) /\ n \in Ids
        /\ \A id \in Ids : Left[id] \in Int /\ Left'[id] \in Int
        /\ \A id \in Ids \ {n} : Left[id] = Left'[id]
    BY <1>11 DEF SumFacts, FiniteSums
  <2> QED
    BY <2>1 DEF SumFacts, ChangedSums
<1>13. SumFunctionOnSet(Left, Ids) = bank[ContractName] /\ bank[ContractName] \in Nat
  BY <1>6, <1>7, ZenonT(60) DEF Balanced, ContractModuleBacked, Left
<1>14. bank'[ContractName] = SumFunctionOnSet(Left', Ids)
  BY <1>5, <1>8, <1>11, <1>12, <1>13
<1>15. ContractModuleBacked'
  BY <1>14 DEF ContractModuleBacked, Left
<1> QED
  BY <1>9, <1>10, <1>15 DEF Balanced

\* Every step keeps the balances in agreement.
LEMMA NextBalanced ==
    ASSUME SumFacts, IInv, Balanced, [Next]_vars
    PROVE  Balanced'
<1>1. TypeOK /\ DepositAccounted
  BY DEF IInv
<1>2. CASE UNCHANGED vars
  BY <1>2 DEF vars, registryVars, contractVars, Balanced, NoOverdraft, ContractModuleBacked,
     BondModuleBacked
<1>3. CASE RegistryNext /\ UNCHANGED contractVars
  BY <1>1, <1>3, BondBalanced, ModBalanced DEF RegistryNext
<1>4. ASSUME NEW id \in Ids, SignCall(id) PROVE Balanced'
  BY <1>4 DEF SignCall, registryVars, Balanced, NoOverdraft, ContractModuleBacked,
     BondModuleBacked
<1>5. ASSUME NEW id \in Ids, NEW nonce \in 1 .. MaxNonce, ClaimContractIncome(id, nonce)
      PROVE  Balanced'
  <2>1. /\ PayOut({id}, nonce, FALSE) /\ Record({id}, nonce, FALSE) /\ UNCHANGED providers
    BY <1>5, ZenonT(60) DEF ClaimContractIncome
  <2>2. Exists(id)
    BY <1>5, ClaimSettles, ZenonT(60) DEF Settling
  <2>3. /\ {id} \in SUBSET Ids /\ {id} \in SUBSET {id} /\ nonce \in 0 .. MaxNonce
        /\ (\A i \in {id} : Exists(i)) /\ (\A i \in {id} \ {id} : Settled(i))
    BY <2>2, MarketAssumptions
  <2> QED
    BY <1>1, <2>1, <2>3, PayOutBalanced, ZenonT(60)
<1>6. ASSUME NEW id \in Ids, CloseContract(id) PROVE Balanced'
  <2>1. PICK f \in BOOLEAN : f = IsSubscription(contracts[id])
    BY ZenonT(60) DEF IsSubscription
  <2>2. PayOut({id}, 0, f) /\ Record({id}, 0, f) /\ UNCHANGED providers
    BY <1>6, <2>1 DEF CloseContract
  <2>3. Exists(id)
    BY <1>6, ZenonT(60) DEF CloseContract, IsExpired, IsOpen, Exists
  <2>4. /\ {id} \in SUBSET Ids /\ {id} \in SUBSET {id} /\ 0 \in 0 .. MaxNonce
        /\ (\A i \in {id} : Exists(i)) /\ (\A i \in {id} \ {id} : Settled(i))
    BY <2>3, MarketAssumptions
  <2> QED
    BY <1>1, <2>2, <2>4, PayOutBalanced, ZenonT(60)
<1>7. CASE EndBlock
  <2> DEFINE S == {id \in Due : Listed(id)}
  <2>1. PayOut(Due, 0, TRUE) /\ Record(S, 0, TRUE) /\ UNCHANGED providers
    BY <1>7, ZenonT(60) DEF EndBlock
  <2>2. \A id \in expirationSet[height] : Settled(id) \/ id \in S
    BY <1>7, EndBlockSettles, ZenonT(60)
  <2>3. /\ Due \in SUBSET Ids /\ S \in SUBSET Due
        /\ \A id \in Due : Exists(id) /\ id \in expirationSet[height]
    BY <1>1 DEF TypeOK, Due, Exists
  <2> HIDE DEF S
  <2>4. (\A id \in Due \ S : Settled(id)) /\ 0 \in 0 .. MaxNonce
        /\ (\A id \in Due : Exists(id)) /\ TRUE \in BOOLEAN
    BY <2>2, <2>3, MarketAssumptions
  <2> QED
    BY <1>1, <2>1, <2>3, <2>4, PayOutBalanced, ZenonT(60)
<1> QED
  BY <1>2, <1>3, <1>4, <1>5, <1>6, <1>7, OpenBalanced DEF Next

-----------------------------------------------------------------------------
(* The escrow *)

\* What a settlement does to a contract that was settled before.
LEMMA FinalStep ==
    ASSUME IInv, NEW S \in SUBSET Ids, NEW isFinal \in BOOLEAN, Settling(S, isFinal),
           NEW id \in Ids, Settled(id)
    PROVE  /\ ledger'[id] = ledger[id]
           /\ contracts'[id] = [contracts[id] EXCEPT !.nonce = contracts'[id].nonce]
<1>1. contracts[id] \in Contract
  BY DEF IInv, TypeOK, Settled, EmptyContract
<1>2. CASE id \notin S
  <2>1. ledger'[id] = ledger[id] /\ contracts'[id] = contracts[id]
    BY <1>2 DEF Settling, Touched
  <2> QED
    BY <1>1, <2>1 DEF Contract
<1>3. CASE id \in S
  <2>1. /\ contracts'[id] \in Contract /\ ledger'[id] = ledger[id]
        /\ contracts'[id].paid = contracts[id].paid
        /\ contracts'[id].deposit = contracts[id].deposit
        /\ SameTerms(contracts[id], contracts'[id])
        /\ contracts'[id].settlementHeight = contracts[id].settlementHeight
    BY <1>3 DEF Settling, Touched, CoinsMoved
  <2>2. PICK c \in Contract, d \in Contract : c = contracts[id] /\ d = contracts'[id]
    BY <1>1, <2>1
  <2>3. d = [c EXCEPT !.nonce = d.nonce]
    BY <2>1, <2>2 DEF Contract, SameTerms
  <2> QED
    BY <2>1, <2>2, <2>3
<1> QED
  BY <1>2, <1>3

\* A contract that is settled keeps its record, but for the nonce, and its coins:
\* no claim, close or end block pays from it or refunds it again.
THEOREM FinalSettlement == Spec => SettledIsFinal
<1> DEFINE Final == \A id \in Ids : Settled(id) =>
               /\ ledger'[id] = ledger[id]
               /\ contracts'[id] = [contracts[id] EXCEPT !.nonce = contracts'[id].nonce]
<1>1. IInv /\ [Next]_vars => [Final]_vars
  <2> SUFFICES ASSUME IInv, [Next]_vars, NEW id \in Ids, Settled(id)
               PROVE  /\ ledger'[id] = ledger[id]
                      /\ contracts'[id] = [contracts[id] EXCEPT !.nonce = contracts'[id].nonce]
    OBVIOUS
  <2>1. contracts[id] \in Contract /\ id < nextId /\ Ids \subseteq Nat
    BY DEF IInv, TypeOK, Settled, EmptyContract, Ids
  <2>2. CASE UNCHANGED <<contracts, ledger>>
    BY <2>1, <2>2 DEF Contract
  <2>3. ASSUME NEW r \in Requests, NEW p \in Providers, NEW client \in Users,
               NEW delegate \in Users \cup {EmptyPubKey}, OpenContract(r, p, client, delegate)
        PROVE  ledger'[id] = ledger[id] /\ contracts'[id] = contracts[id]
    BY <2>1, <2>3 DEF OpenContract, IInv, TypeOK
  <2>4. ASSUME NEW S \in SUBSET Ids, NEW isFinal \in BOOLEAN, Settling(S, isFinal)
        PROVE  /\ ledger'[id] = ledger[id]
               /\ contracts'[id] = [contracts[id] EXCEPT !.nonce = contracts'[id].nonce]
    BY <2>4, FinalStep
  <2>5. contracts'[id] = contracts[id]
          => contracts'[id] = [contracts[id] EXCEPT !.nonce = contracts'[id].nonce]
    BY <2>1 DEF Contract
  <2> QED
    BY <2>2, <2>3, <2>4, <2>5, StepKinds
<1> QED
  BY <1>1, Invariant, PTL DEF Spec, SettledIsFinal

-----------------------------------------------------------------------------
(* The refinement *)

\* The abstract view of one contract changes as its record and its coins do.
LEMMA ViewSame ==
    ASSUME NEW id \in Ids, contracts'[id] = contracts[id], ledger'[id] = ledger[id]
    PROVE  E!Same(id)
BY DEF E!Same, Phase, Settled

\* Opening a contract funds it.
LEMMA OpenFunds ==
    ASSUME IInv, NEW r \in Requests, NEW p \in Providers, NEW client \in Users,
           NEW delegate \in Users \cup {EmptyPubKey}, OpenContract(r, p, client, delegate)
    PROVE  E!Message
<1> DEFINE c == NewContract(r, p, client, delegate)
<1>1. PICK n \in Ids : n = nextId
  BY DEF OpenContract
<1>2. /\ OpenContractValidate(r, p, GetSpender(c))
      /\ contracts' = [contracts EXCEPT ![n] = c]
      /\ ledger' = [ledger EXCEPT ![n].deposited = r.deposit]
  BY <1>1 DEF OpenContract
<1>3. /\ contracts \in [Ids -> Contract \cup {EmptyContract}] /\ ledger \in [Ids -> Ledger]
      /\ height \in Heights /\ contracts[n] = EmptyContract
  BY <1>1 DEF IInv, TypeOK, Ledger, Ids
<1>4. c \in Contract /\ c.height = height /\ c.paid = 0 /\ c.settlementHeight = 0
  BY <1>2, <1>3, NewContractType
<1> HIDE DEF c
<1>5. \A d \in Ids \ {n} : E!Same(d)
  BY <1>2, <1>3, ViewSame
<1>6. /\ contracts'[n] = c /\ ledger'[n].provider = ledger[n].provider
      /\ ledger'[n].reserve = ledger[n].reserve /\ ledger'[n].client = ledger[n].client
  BY <1>2, <1>3 DEF Ledger
<1>7. /\ ledger[n].provider \in Nat /\ ledger[n].reserve \in Nat
      /\ ledger[n].provider + ledger[n].reserve = 0 /\ ledger[n].client = 0
  BY <1>3 DEF IInv, DepositAccounted, RefundedLast, Settled, EmptyContract, Ledger
<1>8. Phase(n) = "none" /\ Phase(n)' = "running"
  BY <1>3, <1>4, <1>6 DEF Phase, Settled, IsEmpty, EmptyContract, Heights
<1>9. c.deposit - c.paid \in Nat
  BY <1>4 DEF Contract
<1>10. E!Fund(n)
  BY <1>6, <1>7, <1>8, <1>9 DEF E!Fund
<1> QED
  BY <1>5, <1>10 DEF E!Message

\* Settling contracts pays for them or settles them.
LEMMA SettlingPays ==
    ASSUME IInv, NEW S \in SUBSET Ids, NEW isFinal \in BOOLEAN, Settling(S, isFinal)
    PROVE  E!Message \/ E!Block
<1>1. \A id \in Ids \ S : E!Same(id)
  BY ViewSame, ZenonT(60) DEF Settling, Touched
<1>2. ASSUME NEW id \in S
      PROVE  /\ IF Settled(id) THEN E!Same(id) ELSE E!Pay(id) \/ E!Settle(id)
             /\ isFinal => E!Settle(id)
  <2>1. PICK c \in Contract, d \in Contract, l \in Ledger, m \in Ledger :
          c = contracts[id] /\ d = contracts'[id] /\ l = ledger[id] /\ m = ledger'[id]
    BY <1>2 DEF Settling, Touched, CoinsMoved, IInv, TypeOK, Ledger
  <2>2. /\ Accounted(l, c) /\ Accounted(m, d) /\ SameTerms(c, d)
        /\ d.settlementHeight = IF isFinal THEN height ELSE c.settlementHeight
        /\ m.deposited = l.deposited /\ d.paid >= c.paid
        /\ ~isFinal => d.deposit = c.deposit /\ m.client = l.client
        /\ c.settlementHeight # 0 => m = l /\ d.paid = c.paid /\ d.deposit = c.deposit
        /\ isFinal => c.settlementHeight = 0
    BY <1>2, <2>1, ZenonT(60)
       DEF Settling, Touched, CoinsMoved, Accounted, IInv, DepositAccounted, Settled
  <2>3. /\ c.paid \in Nat /\ c.deposit \in Nat /\ d.paid \in Nat /\ d.deposit \in Nat
        /\ l.provider \in Nat /\ l.reserve \in Nat /\ l.client \in Nat
        /\ m.provider \in Nat /\ m.reserve \in Nat /\ m.client \in Nat
        /\ height # 0 /\ c.height # 0 /\ d.height # 0
    <3>1. height \in Heights /\ 0 \notin Heights
      BY DEF IInv, TypeOK, Heights
    <3>2. c.height \in Heights /\ d.height \in Heights
      BY <2>1, ZenonT(60) DEF Contract
    <3> QED
      BY <2>1, <3>1, <3>2, ZenonT(60) DEF Contract, Ledger
  <2>4. Phase(id) = IF c.settlementHeight # 0 THEN "settled" ELSE "running"
    BY <2>1, <2>3, ZenonT(60) DEF Phase, Settled, IsEmpty
  <2>5. Phase(id)' = IF d.settlementHeight # 0 THEN "settled" ELSE "running"
    BY <2>1, <2>3, ZenonT(60) DEF Phase, Settled, IsEmpty
  <2>6. CASE Settled(id)
    BY <2>1, <2>2, <2>4, <2>5, <2>6, ZenonT(60) DEF Settled, E!Same
  <2>7. CASE ~Settled(id) /\ ~isFinal
    <3>1. /\ d.deposit - d.paid \in 0 .. (c.deposit - c.paid)
          /\ m.provider + m.reserve = l.provider + l.reserve
                 + ((c.deposit - c.paid) - (d.deposit - d.paid))
          /\ m.client = l.client
      BY <2>2, <2>3, <2>7 DEF Accounted
    <3>2. Phase(id) = "running" /\ Phase(id)' = "running"
      BY <2>1, <2>2, <2>4, <2>5, <2>7, ZenonT(60) DEF Settled
    <3>3. E!Pay(id)
      BY <2>1, <3>1, <3>2 DEF E!Pay
    <3> QED
      BY <2>7, <3>3
  <2>8. CASE ~Settled(id) /\ isFinal
    <3>1. l.client = 0
      BY <2>1, <2>8 DEF IInv, RefundedLast
    <3>2. /\ d.deposit - d.paid = 0
          /\ (m.provider + m.reserve) - (l.provider + l.reserve) \in 0 .. (c.deposit - c.paid)
          /\ m.client = (c.deposit - c.paid)
                 - ((m.provider + m.reserve) - (l.provider + l.reserve))
      BY <2>2, <2>3, <2>8, <3>1 DEF Accounted
    <3>3. Phase(id) = "running" /\ Phase(id)' = "settled"
      BY <2>1, <2>2, <2>3, <2>4, <2>5, <2>8 DEF Settled
    <3>4. E!Settle(id)
      BY <2>1, <3>2, <3>3, ZenonT(60) DEF E!Settle
    <3> QED
      BY <2>8, <3>4
  <2> QED
    BY <2>2, <2>1, <2>6, <2>7, <2>8 DEF Settled
<1>3. CASE isFinal
  BY <1>1, <1>2, <1>3 DEF E!Block
<1>4. CASE ~isFinal
  <2>1. PICK id \in Ids : S = {id}
    BY <1>4 DEF Settling
  <2>2. CASE Settled(id)
    BY <1>1, <1>2, <2>1, <2>2 DEF E!Block
  <2>3. CASE ~Settled(id)
    BY <1>1, <1>2, <2>1, <2>3 DEF E!Message
  <2> QED
    BY <2>2, <2>3
<1> QED
  BY <1>3, <1>4

\* The market implements the escrow.
THEOREM Refinement == Spec => EscrowSpec
<1>1. Init => E!Init
  BY DEF Init, ContractsInit, E!Init, Phase, IsEmpty, EmptyContract
<1>2. IInv /\ [Next]_vars => [E!Message \/ E!Block]_(E!escrowVars)
  <2> SUFFICES ASSUME IInv, [Next]_vars
               PROVE  E!Message \/ E!Block \/ UNCHANGED E!escrowVars
    OBVIOUS
  <2>1. CASE UNCHANGED <<contracts, ledger>>
    BY <2>1 DEF E!escrowVars, Phase, Settled
  <2> QED
    BY <2>1, StepKinds, OpenFunds, SettlingPays
<1> QED
  BY <1>1, <1>2, Invariant, PTL DEF Spec, EscrowSpec, E!Spec

-----------------------------------------------------------------------------
(* What the providers were paid for *)

\* A product of naturals grows with its second factor.
LEMMA ProductMonotone ==
    ASSUME NEW k \in Nat, NEW a \in Nat, NEW b \in Nat, a <= b
    PROVE  k * a \in Nat /\ k * b \in Nat /\ k * a <= k * b
<1>1. PICK d \in Nat : b = a + d
  <2>1. b - a \in Nat /\ b = a + (b - a)
    OBVIOUS
  <2> QED
    BY <2>1
<1>2. k * b = k * a + k * d
  BY <1>1
<1>3. k * a \in Nat /\ k * d \in Nat
  BY <1>1
<1> QED
  BY <1>2, <1>3

\* A settlement of a pay-as-you-go contract brings what was paid up to the calls
\* claimed, or to the deposit.
LEMMA PaygDebt ==
    ASSUME NEW c \in Contract, IsPayAsYouGo(c), c.paid = Least(c.deposit, c.rate * c.nonce),
           NEW n \in 0 .. MaxNonce, c.nonce <= n, NEW h \in Nat
    PROVE  c.paid + ContractDebt([c EXCEPT !.nonce = n], h) = Least(c.deposit, c.rate * n)
<1> DEFINE d == [c EXCEPT !.nonce = n]
<1>1. /\ c.paid \in Nat /\ c.deposit \in Nat /\ c.rate \in Nat /\ c.nonce \in Nat /\ n \in Nat
  BY MarketAssumptions DEF Contract
<1>2. /\ d.paid = c.paid /\ d.deposit = c.deposit /\ d.rate = c.rate /\ d.nonce = n
      /\ ~IsSubscription(d)
  BY DEF Contract, IsSubscription, IsPayAsYouGo, SUBSCRIPTION, PAY_AS_YOU_GO
<1>3. ContractDebt(d, h) = IF c.rate * n - c.paid < 0 THEN 0
                           ELSE Least(c.rate * n - c.paid, c.deposit - c.paid)
  BY <1>2 DEF ContractDebt
<1> HIDE DEF d
<1>4. PICK x \in Nat, y \in Nat : x = c.rate * c.nonce /\ y = c.rate * n /\ x <= y
  BY <1>1, ProductMonotone
<1>5. c.paid + ContractDebt(d, h) = Least(c.deposit, y)
  BY <1>1, <1>3, <1>4 DEF Least
<1> QED
  BY <1>4, <1>5 DEF d

\* What a subscription has earned at height h, and a settlement up to the end of the
\* contract brings what was paid up to that, or to the deposit.
Earned(c, h) == c.rate * c.queriesPerMinute * (h - c.height)

\* Earnings are a natural number that grows with the height.
LEMMA EarnedGrows ==
    ASSUME NEW c \in Contract, NEW g \in Nat, NEW h \in Nat, c.height <= g, g <= h
    PROVE  Earned(c, g) \in Nat /\ Earned(c, h) \in Nat /\ Earned(c, g) <= Earned(c, h)
<1>1. c.rate \in Nat /\ c.queriesPerMinute \in Nat /\ c.height \in Nat
  BY DEF Contract, Heights
<1>2. PICK k \in Nat : k = c.rate * c.queriesPerMinute
  BY <1>1
<1>3. g - c.height \in Nat /\ h - c.height \in Nat /\ g - c.height <= h - c.height
  BY <1>1
<1>4. k * (g - c.height) \in Nat /\ k * (h - c.height) \in Nat
      /\ k * (g - c.height) <= k * (h - c.height)
  BY <1>3, ProductMonotone
<1> QED
  BY <1>2, <1>4 DEF Earned

\* A settlement of a subscription brings what was paid up to the blocks that passed,
\* or to the deposit.
LEMMA SubscriptionDebt ==
    ASSUME NEW c \in Contract, IsSubscription(c), NEW h \in Nat, c.height <= h,
           h <= SettlementPeriodEnd(c), c.paid <= c.deposit, c.paid <= Earned(c, h),
           NEW n \in 0 .. MaxNonce
    PROVE  c.paid + ContractDebt([c EXCEPT !.nonce = n], h) = Least(c.deposit, Earned(c, h))
<1> DEFINE d == [c EXCEPT !.nonce = n]
<1>1. /\ c.paid \in Nat /\ c.deposit \in Nat /\ c.rate \in Nat /\ c.height \in Nat
      /\ c.queriesPerMinute \in Nat
  BY DEF Contract, Heights
<1>2. /\ d.paid = c.paid /\ d.deposit = c.deposit /\ d.rate = c.rate /\ d.height = c.height
      /\ d.queriesPerMinute = c.queriesPerMinute /\ IsSubscription(d)
      /\ SettlementPeriodEnd(d) = SettlementPeriodEnd(c)
  BY DEF Contract, IsSubscription, IsPayAsYouGo, SettlementPeriodEnd, Expiration
<1>3. SettlementPeriodEnd(c) \in Nat
  BY Dates
<1>4. Least(h, SettlementPeriodEnd(d)) = h
  BY <1>2, <1>3 DEF Least
<1>5. c.rate * (h - c.height) * c.queriesPerMinute = Earned(c, h)
  <2>1. PICK x \in Nat : x = h - c.height
    BY <1>1
  <2>2. c.rate * x * c.queriesPerMinute = c.rate * c.queriesPerMinute * x
    BY <1>1
  <2> QED
    BY <2>1, <2>2 DEF Earned
<1>6. Earned(c, h) \in Nat
  BY EarnedGrows
<1>7. ContractDebt(d, h) = IF Earned(c, h) - c.paid < 0 THEN 0
                           ELSE Least(Earned(c, h) - c.paid, c.deposit - c.paid)
  BY <1>2, <1>4, <1>5 DEF ContractDebt
<1> HIDE DEF d
<1>8. c.paid + ContractDebt(d, h) = Least(c.deposit, Earned(c, h))
  BY <1>1, <1>6, <1>7 DEF Least
<1> QED
  BY <1>8 DEF d

\* The inductive form of the two invariants.  The claims of a pay-as-you-go contract
\* were signed; a subscription that runs has been paid no more than it has earned.
PaidUp ==
    \A id \in Ids : Exists(id) =>
        LET c == contracts[id]
        IN  /\ IsPayAsYouGo(c) =>
                 /\ c.nonce <= signed[id]
                 /\ c.paid <= c.rate * signed[id]
                 /\ ~Settled(id) => c.paid = Least(c.deposit, c.rate * c.nonce)
            /\ IsSubscription(c) =>
                 IF Settled(id)
                 THEN c.paid = Least(ledger[id].deposited, Earned(c, c.settlementHeight))
                 ELSE c.paid <= Earned(c, height)

\* What the settlements of the contracts of S paid, for claims up to nonce.
Repaid(S, nonce) ==
    \A id \in S :
        LET c == contracts[id]
        IN  /\ contracts'[id].nonce = Greatest(c.nonce, nonce)
            /\ contracts'[id].paid
                 = c.paid + ContractDebt([c EXCEPT !.nonce = Greatest(@, nonce)], height)
            /\ IsSubscription(c) => height <= SettlementPeriodEnd(c)
            /\ IsPayAsYouGo(c) => nonce <= signed[id]

\* The records of the contracts of S.
LEMMA RecordPays ==
    ASSUME TypeOK, DepositAccounted, NEW S \in SUBSET Ids, \A id \in S : Exists(id),
           NEW nonce \in 0 .. MaxNonce, NEW isFinal \in BOOLEAN, Record(S, nonce, isFinal),
           NEW id \in S
    PROVE  /\ contracts'[id].nonce = Greatest(contracts[id].nonce, nonce)
           /\ contracts'[id].paid = contracts[id].paid
                + ContractDebt([contracts[id] EXCEPT !.nonce = Greatest(@, nonce)], height)
<1>1. contracts[id] \in Contract /\ height \in Heights
  BY StoredType DEF TypeOK
<1>2. contracts[id].paid <= contracts[id].deposit
  BY ZenonT(60) DEF DepositAccounted
<1>3. contracts'[id] = SettleContract(contracts[id], nonce, isFinal).contract
  BY ZenonT(60) DEF Record
<1> DEFINE s == SettleContract(contracts[id], nonce, isFinal)
<1>4. /\ s.contract.nonce = Greatest(contracts[id].nonce, nonce)
      /\ s.contract.paid = contracts[id].paid
           + ContractDebt([contracts[id] EXCEPT !.nonce = Greatest(@, nonce)], height)
  BY <1>1, <1>2, SettleEffect, ZenonT(60)
<1> HIDE DEF s
<1>5. contracts'[id] = s.contract
  BY <1>3 DEF s
<1> QED
  BY <1>4, <1>5, ZenonT(60)

\* A step that settles contracts pays for claims that were signed, and settles no
\* subscription after its end.
LEMMA PaymentKinds ==
    ASSUME IInv, [Next]_vars
    PROVE  \/ /\ UNCHANGED <<contracts, ledger, height>>
              /\ \A id \in Ids : signed'[id] >= signed[id]
           \/ \E r \in Requests, p \in Providers, client \in Users,
                 delegate \in Users \cup {EmptyPubKey} : OpenContract(r, p, client, delegate)
           \/ \E S \in SUBSET Ids, isFinal \in BOOLEAN, nonce \in 0 .. MaxNonce :
                /\ Settling(S, isFinal) /\ Repaid(S, nonce)
                /\ signed' = signed /\ height' >= height /\ height' \in Heights
<1>1. /\ TypeOK /\ DepositAccounted /\ height \in Nat /\ height \in Heights
      /\ 0 \in 0 .. MaxNonce /\ signed \in [Ids -> 0 .. MaxNonce]
      /\ \A id \in Ids : signed[id] \in Nat
  <2>1. TypeOK /\ DepositAccounted
    BY DEF IInv
  <2>2. height \in Heights /\ signed \in [Ids -> 0 .. MaxNonce]
    BY <2>1 DEF TypeOK
  <2>3. \A id \in Ids : signed[id] \in Nat
    BY <2>2
  <2> QED
    BY <2>1, <2>2, <2>3, MarketAssumptions DEF Heights
<1>2. CASE UNCHANGED vars
  BY <1>1, <1>2 DEF vars, registryVars, contractVars
<1>3. CASE RegistryNext /\ UNCHANGED contractVars
  <2>1. UNCHANGED <<contracts, ledger, signed>>
    BY <1>3 DEF contractVars
  <2>2. height' = height
    BY <1>3, ZenonT(60) DEF RegistryNext, BondProvider, ModProvider
  <2> QED
    BY <1>1, <2>1, <2>2
<1>4. ASSUME NEW id \in Ids, SignCall(id)
      PROVE  /\ UNCHANGED <<contracts, ledger, height>>
             /\ \A i \in Ids : signed'[i] >= signed[i]
  BY <1>1, <1>4 DEF SignCall, registryVars
<1>5. ASSUME NEW id \in Ids, NEW nonce \in 1 .. MaxNonce, ClaimContractIncome(id, nonce)
      PROVE  \E S \in SUBSET Ids, isFinal \in BOOLEAN, n \in 0 .. MaxNonce :
                /\ Settling(S, isFinal) /\ Repaid(S, n)
                /\ signed' = signed /\ height' >= height /\ height' \in Heights
  <2>1. /\ Record({id}, nonce, FALSE) /\ signed' = signed /\ height' = height
        /\ ~IsSettled(contracts[id], height)
        /\ (IsSubscription(contracts[id]) /\ IsOpenAuthorization(contracts[id]))
             \/ nonce <= signed[id]
    BY <1>5, ZenonT(60) DEF ClaimContractIncome
  <2>2. Settling({id}, FALSE)
    BY <1>5, ClaimSettles, ZenonT(60)
  <2>3. /\ {id} \in SUBSET Ids /\ nonce \in 0 .. MaxNonce
        /\ (\A i \in {id} : Exists(i)) /\ FALSE \in BOOLEAN
    BY <2>2, MarketAssumptions DEF Settling
  <2>4. /\ contracts'[id].nonce = Greatest(contracts[id].nonce, nonce)
        /\ contracts'[id].paid = contracts[id].paid
             + ContractDebt([contracts[id] EXCEPT !.nonce = Greatest(@, nonce)], height)
    BY <1>1, <2>1, <2>3, RecordPays, ZenonT(60)
  <2>5. contracts[id] \in Contract
    BY <1>1, <2>3, StoredType
  <2>6. IsSubscription(contracts[id]) => height <= SettlementPeriodEnd(contracts[id])
    <3>1. /\ SettlementPeriodEnd(contracts[id]) \in Nat /\ Expiration(contracts[id]) \in Nat
          /\ SettlementPeriodEnd(contracts[id]) >= Expiration(contracts[id])
      BY <2>5, Dates, ZenonT(60)
    <3> QED
      BY <1>1, <2>1, <3>1 DEF IsSettled, IsOpen
  <2>7. IsPayAsYouGo(contracts[id]) => nonce <= signed[id]
    BY <2>1 DEF IsPayAsYouGo, IsSubscription, SUBSCRIPTION, PAY_AS_YOU_GO
  <2>8. Repaid({id}, nonce)
    BY <2>4, <2>6, <2>7, ZenonT(60) DEF Repaid
  <2>9. height' >= height /\ height' \in Heights
    BY <1>1, <2>1
  <2> QED
    BY <2>1, <2>2, <2>3, <2>8, <2>9, ZenonT(60)
<1>6. ASSUME NEW id \in Ids, CloseContract(id)
      PROVE  \E S \in SUBSET Ids, isFinal \in BOOLEAN, n \in 0 .. MaxNonce :
                /\ Settling(S, isFinal) /\ Repaid(S, n)
                /\ signed' = signed /\ height' >= height /\ height' \in Heights
  <2>1. PICK f \in BOOLEAN : Record({id}, 0, f)
    BY <1>6, ZenonT(60) DEF CloseContract, IsSubscription
  <2>2. /\ signed' = signed /\ height' = height /\ IsOpen(contracts[id], height)
    BY <1>6 DEF CloseContract, IsExpired
  <2>3. PICK g \in BOOLEAN : Settling({id}, g)
    BY <1>6, CloseSettles, ZenonT(60)
  <2>4. {id} \in SUBSET Ids /\ (\A i \in {id} : Exists(i))
    BY <2>3 DEF Settling
  <2>5. /\ contracts'[id].nonce = Greatest(contracts[id].nonce, 0)
        /\ contracts'[id].paid = contracts[id].paid
             + ContractDebt([contracts[id] EXCEPT !.nonce = Greatest(@, 0)], height)
    BY <1>1, <2>1, <2>4, RecordPays, ZenonT(60)
  <2>6. contracts[id] \in Contract
    BY <1>1, <2>4, StoredType
  <2>7. height <= SettlementPeriodEnd(contracts[id])
    <3>1. /\ SettlementPeriodEnd(contracts[id]) \in Nat /\ Expiration(contracts[id]) \in Nat
          /\ SettlementPeriodEnd(contracts[id]) >= Expiration(contracts[id])
      BY <2>6, Dates, ZenonT(60)
    <3> QED
      BY <1>1, <2>2, <3>1 DEF IsOpen
  <2>8. 0 <= signed[id]
    BY <1>1
  <2>9. Repaid({id}, 0)
    BY <2>5, <2>7, <2>8, ZenonT(60) DEF Repaid
  <2>10. height' >= height /\ height' \in Heights
    BY <1>1, <2>2
  <2> QED
    BY <1>1, <2>2, <2>3, <2>4, <2>9, <2>10, ZenonT(60)
<1>7. CASE EndBlock
  <2> DEFINE S == {id \in Due : Listed(id)}
  <2>1. /\ Record(S, 0, TRUE) /\ signed' = signed /\ height' = height + 1 /\ height < MaxHeight
    BY <1>7, ZenonT(60) DEF EndBlock
  <2>2. /\ S \in SUBSET Ids /\ Touched(S, TRUE) /\ CoinsMoved(S, TRUE)
        /\ \A id \in S : Exists(id) /\ ~Settled(id) /\ id \in expirationSet[height]
    BY <1>7, EndBlockSettles, ZenonT(60)
  <2> HIDE DEF S
  <2>3. Settling(S, TRUE)
    BY <2>2, ZenonT(60) DEF Settling
  <2>4. ASSUME NEW id \in S
        PROVE  /\ contracts'[id].nonce = Greatest(contracts[id].nonce, 0)
               /\ contracts'[id].paid = contracts[id].paid
                    + ContractDebt([contracts[id] EXCEPT !.nonce = Greatest(@, 0)], height)
               /\ IsSubscription(contracts[id]) => height <= SettlementPeriodEnd(contracts[id])
               /\ 0 <= signed[id]
    <3>1. /\ contracts'[id].nonce = Greatest(contracts[id].nonce, 0)
          /\ contracts'[id].paid = contracts[id].paid
               + ContractDebt([contracts[id] EXCEPT !.nonce = Greatest(@, 0)], height)
      <4>1. (\A i \in S : Exists(i)) /\ TRUE \in BOOLEAN
        BY <2>2
      <4> QED
        BY <1>1, <2>1, <2>2, <4>1, RecordPays, ZenonT(60)
    <3>2. IsSubscription(contracts[id]) => height = SettlementPeriodEnd(contracts[id])
      BY <1>1, <2>2 DEF IInv, Entries, IsSubscription, IsPayAsYouGo, SUBSCRIPTION, PAY_AS_YOU_GO
    <3> QED
      BY <1>1, <2>2, <3>1, <3>2
  <2>5. Repaid(S, 0)
    BY <2>4, ZenonT(60) DEF Repaid
  <2>6. height' >= height /\ height' \in Heights
    BY <1>1, <2>1, RegistryAssumptions DEF Heights
  <2> QED
    BY <1>1, <2>1, <2>2, <2>3, <2>5, <2>6, ZenonT(60)
<1> QED
  BY <1>2, <1>3, <1>4, <1>5, <1>6, <1>7, ZenonT(60) DEF Next

\* A step that leaves the contracts alone keeps them paid up.
LEMMA PaidUpSame ==
    ASSUME IInv, PaidUp, UNCHANGED <<contracts, ledger, height>>,
           \A id \in Ids : signed'[id] >= signed[id] /\ signed'[id] \in Nat
    PROVE  PaidUp'
<1> SUFFICES ASSUME NEW id \in Ids, Exists(id), IsPayAsYouGo(contracts[id])
             PROVE  /\ contracts[id].nonce <= signed'[id]
                    /\ contracts[id].paid <= contracts[id].rate * signed'[id]
  BY ZenonT(60) DEF PaidUp, Exists, Settled
<1>1. /\ contracts[id].nonce <= signed[id]
      /\ contracts[id].paid <= contracts[id].rate * signed[id]
  BY ZenonT(60) DEF PaidUp
<1>2. /\ contracts[id].nonce \in Nat /\ contracts[id].paid \in Nat /\ contracts[id].rate \in Nat
      /\ signed[id] \in Nat
  <2>1. TypeOK /\ contracts[id] \in Contract
    BY StoredType, ZenonT(60) DEF IInv
  <2> QED
    BY <2>1, MarketAssumptions DEF Contract, TypeOK
<1>3. /\ contracts[id].rate * signed[id] \in Nat /\ contracts[id].rate * signed'[id] \in Nat
      /\ contracts[id].rate * signed[id] <= contracts[id].rate * signed'[id]
  BY <1>2, ProductMonotone, ZenonT(60)
<1> QED
  BY <1>1, <1>2, <1>3

\* A new contract has been paid nothing.
LEMMA PaidUpOpen ==
    ASSUME IInv, PaidUp, NEW r \in Requests, NEW p \in Providers, NEW client \in Users,
           NEW delegate \in Users \cup {EmptyPubKey}, OpenContract(r, p, client, delegate)
    PROVE  PaidUp'
<1> DEFINE c == NewContract(r, p, client, delegate)
<1>1. PICK n \in Ids : n = nextId
  BY DEF OpenContract
<1>2. /\ OpenContractValidate(r, p, GetSpender(c))
      /\ contracts' = [contracts EXCEPT ![n] = c]
      /\ ledger' = [ledger EXCEPT ![n].deposited = r.deposit]
      /\ height' = height /\ signed' = signed
  BY <1>1 DEF OpenContract
<1>3. /\ contracts \in [Ids -> Contract \cup {EmptyContract}] /\ ledger \in [Ids -> Ledger]
      /\ height \in Heights /\ signed[n] \in Nat /\ height \in Nat
  <2>1. TypeOK
    BY DEF IInv
  <2> QED
    BY <2>1 DEF TypeOK, Ledger, Heights
<1>4. c \in Contract /\ c.height = height /\ c.paid = 0 /\ c.settlementHeight = 0 /\ c.nonce = 0
  BY <1>2, <1>3, NewContractType
<1> HIDE DEF c
<1>5. contracts'[n] = c
  BY <1>2, <1>3
<1>6. \A id \in Ids \ {n} : contracts'[id] = contracts[id] /\ ledger'[id] = ledger[id]
  BY <1>2, <1>3
<1>7. /\ c.deposit \in Nat /\ c.rate \in Nat
      /\ c.rate * signed[n] \in Nat /\ c.rate * 0 = 0
  BY <1>3, <1>4 DEF Contract
<1>8. Least(c.deposit, c.rate * 0) = 0
  BY <1>7 DEF Least
<1>9. Earned(c, height) \in Nat
  BY <1>3, <1>4, EarnedGrows
<1> SUFFICES ASSUME NEW id \in Ids, Exists(id)'
             PROVE  /\ IsPayAsYouGo(contracts'[id]) =>
                         /\ contracts'[id].nonce <= signed[id]
                         /\ contracts'[id].paid <= contracts'[id].rate * signed[id]
                         /\ ~Settled(id)' => contracts'[id].paid
                              = Least(contracts'[id].deposit,
                                      contracts'[id].rate * contracts'[id].nonce)
                    /\ IsSubscription(contracts'[id]) =>
                         IF Settled(id)'
                         THEN contracts'[id].paid
                                = Least(ledger'[id].deposited,
                                        Earned(contracts'[id], contracts'[id].settlementHeight))
                         ELSE contracts'[id].paid <= Earned(contracts'[id], height)
  BY <1>2 DEF PaidUp
<1>10. CASE id = n
  <2>1. contracts'[id] = c /\ ~Settled(id)'
    BY <1>4, <1>5, <1>10, ZenonT(60) DEF Settled
  <2>2. 0 <= signed[id] /\ 0 <= c.rate * signed[id] /\ 0 <= Earned(c, height)
    BY <1>3, <1>7, <1>9, <1>10
  <2> QED
    BY <1>4, <1>8, <2>1, <2>2, ZenonT(60)
<1>11. CASE id # n
  BY <1>6, <1>11, ZenonT(60) DEF PaidUp, Settled, Exists
<1> QED
  BY <1>10, <1>11, ZenonT(60)

\* Earnings depend on the terms of the contract only.
LEMMA EarnedSame ==
    ASSUME NEW c, NEW d, SameTerms(c, d), NEW h
    PROVE  Earned(d, h) = Earned(c, h)
BY DEF SameTerms, Earned

\* Settlements keep the contracts paid up.
LEMMA PaidUpSettle ==
    ASSUME IInv, PaidUp, NEW S \in SUBSET Ids, NEW isFinal \in BOOLEAN,
           NEW nonce \in 0 .. MaxNonce, Settling(S, isFinal), Repaid(S, nonce),
           signed' = signed, height' >= height, height' \in Heights
    PROVE  PaidUp'
<1>1. /\ TypeOK /\ height \in Nat /\ height' \in Nat /\ height # 0
      /\ signed \in [Ids -> 0 .. MaxNonce]
  <2>1. TypeOK
    BY DEF IInv
  <2> QED
    BY <2>1 DEF TypeOK, Heights
<1> SUFFICES ASSUME NEW id \in Ids, Exists(id)'
             PROVE  /\ IsPayAsYouGo(contracts'[id]) =>
                         /\ contracts'[id].nonce <= signed[id]
                         /\ contracts'[id].paid <= contracts'[id].rate * signed[id]
                         /\ ~Settled(id)' => contracts'[id].paid
                              = Least(contracts'[id].deposit,
                                      contracts'[id].rate * contracts'[id].nonce)
                    /\ IsSubscription(contracts'[id]) =>
                         IF Settled(id)'
                         THEN contracts'[id].paid
                                = Least(ledger'[id].deposited,
                                        Earned(contracts'[id], contracts'[id].settlementHeight))
                         ELSE contracts'[id].paid <= Earned(contracts'[id], height')
  BY ZenonT(60) DEF PaidUp
<1>2. CASE id \notin S
  <2>1. contracts'[id] = contracts[id] /\ ledger'[id] = ledger[id]
    BY <1>2, ZenonT(60) DEF Settling, Touched
  <2>2. Exists(id)
    BY <2>1, ZenonT(60) DEF Exists
  <2>3. contracts[id] \in Contract /\ contracts[id].height <= height
    BY <1>1, <2>2, StoredType, ZenonT(60) DEF IInv, Opened
  <2>4. /\ Earned(contracts[id], height) \in Nat /\ Earned(contracts[id], height') \in Nat
        /\ Earned(contracts[id], height) <= Earned(contracts[id], height')
    BY <1>1, <2>3, EarnedGrows
  <2>5. contracts[id].paid \in Nat
    BY <2>3, ZenonT(60) DEF Contract
  <2>6. contracts[id].paid <= Earned(contracts[id], height)
          => contracts[id].paid <= Earned(contracts[id], height')
    BY <2>4, <2>5
  <2>7. Settled(id)' <=> Settled(id)
    BY <2>1, ZenonT(60) DEF Settled
  <2>8. /\ IsPayAsYouGo(contracts[id]) =>
             /\ contracts[id].nonce <= signed[id]
             /\ contracts[id].paid <= contracts[id].rate * signed[id]
             /\ ~Settled(id) => contracts[id].paid
                  = Least(contracts[id].deposit, contracts[id].rate * contracts[id].nonce)
        /\ IsSubscription(contracts[id]) =>
             IF Settled(id)
             THEN contracts[id].paid
                    = Least(ledger[id].deposited,
                            Earned(contracts[id], contracts[id].settlementHeight))
             ELSE contracts[id].paid <= Earned(contracts[id], height)
    BY <2>2, ZenonT(60) DEF PaidUp
  <2> QED
    BY <2>1, <2>6, <2>7, <2>8, ZenonT(60)
<1>3. CASE id \in S
  <2>1. PICK c \in Contract, d \in Contract : c = contracts[id] /\ d = contracts'[id]
    BY <1>3, ZenonT(60) DEF Settling, CoinsMoved
  <2>2. /\ SameTerms(c, d)
        /\ d.settlementHeight = IF isFinal THEN height ELSE c.settlementHeight
        /\ ledger'[id].deposited = ledger[id].deposited
        /\ ~isFinal => d.deposit = c.deposit
        /\ c.settlementHeight # 0 => d.paid = c.paid /\ ~isFinal
    BY <1>3, <2>1, ZenonT(60) DEF Settling, Touched, CoinsMoved, Settled
  <2>3. /\ d.nonce = Greatest(c.nonce, nonce)
        /\ d.paid = c.paid + ContractDebt([c EXCEPT !.nonce = Greatest(@, nonce)], height)
        /\ IsSubscription(c) => height <= SettlementPeriodEnd(c)
        /\ IsPayAsYouGo(c) => nonce <= signed[id]
    BY <1>3, <2>1 DEF Repaid
  <2>4. Exists(id) /\ c.height <= height
    BY <1>3, <2>1, ZenonT(60) DEF Settling, IInv, Opened
  <2>5. /\ c.paid \in Nat /\ c.deposit \in Nat /\ c.rate \in Nat /\ c.nonce \in 0 .. MaxNonce
        /\ signed[id] \in Nat /\ d.paid \in Nat /\ d.deposit \in Nat /\ d.nonce \in 0 .. MaxNonce
        /\ d.nonce >= c.nonce
    BY <1>1, <2>1, <2>3, MarketAssumptions DEF Contract, Greatest
  <2>6. d.rate = c.rate /\ d.type = c.type
    BY <2>2 DEF SameTerms
  <2>7. ASSUME IsPayAsYouGo(d)
        PROVE  /\ d.nonce <= signed[id]
               /\ d.paid <= d.rate * signed[id]
               /\ d.settlementHeight = 0 => d.paid = Least(d.deposit, d.rate * d.nonce)
    <3>1. IsPayAsYouGo(c)
      BY <2>6, <2>7 DEF IsPayAsYouGo
    <3>2. /\ c.nonce <= signed[id] /\ c.paid <= c.rate * signed[id]
          /\ c.settlementHeight = 0 => c.paid = Least(c.deposit, c.rate * c.nonce)
      BY <2>1, <2>4, <3>1, ZenonT(60) DEF PaidUp, Settled
    <3>3. d.nonce <= signed[id]
      BY <2>3, <2>5, <3>1, <3>2 DEF Greatest
    <3>4. CASE c.settlementHeight # 0
      BY <2>2, <2>6, <3>2, <3>3, <3>4, ZenonT(60)
    <3>5. CASE c.settlementHeight = 0
      <4>1. [c EXCEPT !.nonce = Greatest(@, nonce)] = [c EXCEPT !.nonce = d.nonce]
        BY <2>3
      <4>2. d.paid = Least(c.deposit, c.rate * d.nonce)
        BY <1>1, <2>3, <2>5, <3>1, <3>2, <3>5, <4>1, PaygDebt
      <4>3. /\ c.rate * d.nonce \in Nat /\ c.rate * signed[id] \in Nat
            /\ c.rate * d.nonce <= c.rate * signed[id]
        BY <2>5, <3>3, ProductMonotone
      <4>4. d.paid <= c.rate * signed[id]
        BY <2>5, <4>2, <4>3 DEF Least
      <4>5. d.settlementHeight = 0 => d.deposit = c.deposit
        BY <1>1, <2>2
      <4> QED
        BY <2>6, <3>3, <4>2, <4>4, <4>5
    <3> QED
      BY <3>4, <3>5
  <2>8. ASSUME IsSubscription(d)
        PROVE  IF d.settlementHeight # 0
               THEN d.paid = Least(ledger'[id].deposited, Earned(d, d.settlementHeight))
               ELSE d.paid <= Earned(d, height')
    <3>1. IsSubscription(c)
      BY <2>6, <2>8 DEF IsSubscription
    <3>2. IF c.settlementHeight # 0
          THEN c.paid = Least(ledger[id].deposited, Earned(c, c.settlementHeight))
          ELSE c.paid <= Earned(c, height)
      BY <2>1, <2>4, <3>1, ZenonT(60) DEF PaidUp, Settled
    <3>3. CASE c.settlementHeight # 0
      BY <2>2, <3>2, <3>3, EarnedSame, ZenonT(60)
    <3>4. CASE c.settlementHeight = 0
      <4>1. c.paid <= c.deposit /\ c.deposit = ledger[id].deposited
        <5>1. /\ c.paid <= c.deposit
              /\ c.paid = ledger[id].provider + ledger[id].reserve
              /\ ledger[id].deposited = ledger[id].provider + ledger[id].reserve
                    + ledger[id].client + (c.deposit - c.paid)
              /\ ledger[id].client = 0
          BY <2>1, <3>4, ZenonT(60) DEF IInv, DepositAccounted, RefundedLast, Settled
        <5>2. /\ ledger[id].provider \in Nat /\ ledger[id].reserve \in Nat
              /\ ledger[id].deposited \in Nat
          BY <1>1 DEF TypeOK
        <5> QED
          BY <2>5, <5>1, <5>2
      <4>2. /\ Earned(c, height) \in Nat /\ Earned(c, height') \in Nat
            /\ Earned(c, height) <= Earned(c, height')
        BY <1>1, <2>4, EarnedGrows
      <4>3. d.paid = Least(c.deposit, Earned(c, height))
        <5>1. [c EXCEPT !.nonce = Greatest(@, nonce)] = [c EXCEPT !.nonce = d.nonce]
          BY <2>3
        <5> QED
          BY <1>1, <2>3, <2>4, <2>5, <3>1, <3>2, <3>4, <4>1, <5>1, SubscriptionDebt
      <4>4. CASE isFinal
        <5>1. d.settlementHeight = height
          BY <2>2, <4>4, ZenonT(60)
        <5>2. Earned(d, d.settlementHeight) = Earned(c, height)
          BY <2>2, <5>1, EarnedSame, ZenonT(60)
        <5> QED
          BY <1>1, <2>2, <4>1, <4>3, <5>1, <5>2, ZenonT(60)
      <4>5. CASE ~isFinal
        <5>1. d.settlementHeight = 0
          BY <2>2, <3>4, <4>5
        <5>2. d.paid <= Earned(c, height')
          BY <2>5, <4>2, <4>3 DEF Least
        <5>3. Earned(d, height') = Earned(c, height')
          BY <2>2, EarnedSame
        <5> QED
          BY <5>1, <5>2, <5>3
      <4> QED
        BY <4>4, <4>5
    <3> QED
      BY <3>3, <3>4
  <2> QED
    BY <2>1, <2>7, <2>8, ZenonT(60) DEF Settled
<1> QED
  BY <1>2, <1>3, ZenonT(60)

\* Contracts stay paid up.
LEMMA PaidUpAlways == Spec => []PaidUp
<1>1. Init => PaidUp
  BY DEF Init, ContractsInit, PaidUp, Exists, IsEmpty, EmptyContract
<1>2. ASSUME IInv, IInv', PaidUp, [Next]_vars PROVE PaidUp'
  <2>1. \A id \in Ids : signed'[id] \in Nat
    <3>1. signed' \in [Ids -> 0 .. MaxNonce]
      BY <1>2 DEF IInv, TypeOK
    <3> QED
      BY <3>1
  <2> QED
    BY <1>2, <2>1, PaymentKinds, PaidUpSame, PaidUpOpen, PaidUpSettle, ZenonT(60)
<1> QED
  BY <1>1, <1>2, Invariant, PTL DEF Spec

\* A pay-as-you-go provider is paid for calls the spender signed and no others, up to
\* the deposit, in whatever order claims, closes and the end blocker settle.
THEOREM PaidForSignedCalls == Spec => []PaygPaidForSignedCalls
<1>1. PaidUp => PaygPaidForSignedCalls
  BY ZenonT(60) DEF PaidUp, PaygPaidForSignedCalls
<1> QED
  BY <1>1, PaidUpAlways, PTL

\* A settled subscription was paid for the blocks from its opening to its settlement,
\* whatever claims were made in between.
THEOREM PaidForTime == Spec => []SubscriptionPaidForTime
<1>1. ASSUME IInv, PaidUp PROVE SubscriptionPaidForTime
  <2> SUFFICES ASSUME NEW id \in Ids, Exists(id), IsSubscription(contracts[id])
               PROVE  LET c    == contracts[id]
                          last == IF Settled(id) THEN c.settlementHeight ELSE height
                          owed == Least(ledger[id].deposited, Earned(c, last))
                      IN  IF Settled(id) THEN c.paid = owed ELSE c.paid <= owed
    BY ZenonT(60) DEF SubscriptionPaidForTime, Earned
  <2>1. CASE Settled(id)
    BY <1>1, <2>1, ZenonT(60) DEF PaidUp
  <2>2. CASE ~Settled(id)
    <3>1. contracts[id].paid <= Earned(contracts[id], height)
      BY <1>1, <2>2, ZenonT(60) DEF PaidUp
    <3>2. contracts[id].paid <= ledger[id].deposited
      <4>1. /\ contracts[id].paid <= contracts[id].deposit
            /\ contracts[id].paid = ledger[id].provider + ledger[id].reserve
            /\ ledger[id].deposited = ledger[id].provider + ledger[id].reserve
                  + ledger[id].client + (contracts[id].deposit - contracts[id].paid)
        BY <1>1 DEF IInv, DepositAccounted
      <4>2. contracts[id].paid \in Nat /\ contracts[id].deposit \in Nat /\ ledger[id].client \in Nat
        <5>1. TypeOK /\ contracts[id] \in Contract
          BY <1>1, StoredType DEF IInv
        <5> QED
          BY <5>1 DEF Contract, TypeOK
      <4> QED
        BY <4>1, <4>2
    <3> QED
      BY <2>2, <3>1, <3>2, ZenonT(60) DEF Least
  <2> QED
    BY <2>1, <2>2, ZenonT(60)
<1> QED
  BY <1>1, Invariant, PaidUpAlways, PTL

-----------------------------------------------------------------------------
(* Running subscriptions *)

\* The contract is a subscription that is not settled and has not expired.
Running(id) ==
    /\ Exists(id) /\ ~Settled(id) /\ IsSubscription(contracts[id])
    /\ Expiration(contracts[id]) >= height

\* No step but the opening of a contract makes one run, or changes its terms.
LEMMA RunningBefore ==
    ASSUME IInv, \/ UNCHANGED <<contracts, height>>
                 \/ \E S \in SUBSET Ids, isFinal \in BOOLEAN :
                      Settling(S, isFinal) /\ height' >= height /\ height' \in Nat,
           NEW id \in Ids, Running(id)'
    PROVE  /\ Running(id) /\ Spender(id)' = Spender(id)
           /\ contracts'[id].provider = contracts[id].provider
<1>1. CASE UNCHANGED <<contracts, height>>
  BY <1>1 DEF Running, Exists, Settled, Spender
<1>2. ASSUME NEW S \in SUBSET Ids, NEW isFinal \in BOOLEAN, Settling(S, isFinal),
             height' >= height, height' \in Nat
      PROVE  /\ Running(id) /\ Spender(id)' = Spender(id)
             /\ contracts'[id].provider = contracts[id].provider
  <2>1. height \in Nat
    BY DEF IInv, TypeOK, Heights
  <2>2. CASE id \notin S
    <3>1. contracts'[id] = contracts[id]
      BY <1>2, <2>2, ZenonT(60) DEF Settling, Touched
    <3>2. Exists(id)
      BY <3>1 DEF Running, Exists
    <3>3. contracts[id] \in Contract /\ Expiration(contracts[id]) \in Nat
      BY <3>2, StoredType, Dates, ZenonT(60) DEF IInv
    <3> QED
      BY <1>2, <2>1, <3>1, <3>3 DEF Running, Exists, Settled, Spender
  <2>3. CASE id \in S
    <3>1. PICK c \in Contract, d \in Contract : c = contracts[id] /\ d = contracts'[id]
      BY <1>2, <2>3, ZenonT(60) DEF Settling, CoinsMoved
    <3>2. /\ SameTerms(c, d) /\ Exists(id)
          /\ d.settlementHeight = IF isFinal THEN height ELSE c.settlementHeight
          /\ isFinal => c.settlementHeight = 0
      BY <1>2, <2>3, <3>1, ZenonT(60) DEF Settling, Touched, Settled
    <3>3. d.settlementHeight = 0
      BY <3>1, ZenonT(60) DEF Running, Settled
    <3>4. c.settlementHeight = 0
      BY <3>2, <3>3
    <3>5. Expiration(d) = Expiration(c) /\ Expiration(c) \in Nat /\ GetSpender(d) = GetSpender(c)
      BY <3>2, Dates, ZenonT(60) DEF SameTerms, Expiration, GetSpender
    <3>6. IsSubscription(c) /\ Expiration(c) >= height' /\ d.provider = c.provider
      BY <3>1, <3>2, <3>5, ZenonT(60) DEF Running, SameTerms, IsSubscription
    <3> QED
      BY <1>2, <2>1, <3>1, <3>2, <3>4, <3>5, <3>6 DEF Running, Settled, Spender
  <2> QED
    BY <2>2, <2>3
<1> QED
  BY <1>1, <1>2

\* A spender never has two running subscriptions with the same provider: the check of
\* OpenContractValidate looks at the spender's list, which holds every running one.
THEOREM SubscriptionUnique == Spec => []OneOpenSubscription
<1> DEFINE One == \A i, j \in Ids : Running(i) /\ Running(j) /\ Spender(i) = Spender(j)
                       /\ contracts[i].provider = contracts[j].provider => i = j
<1>1. OneOpenSubscription <=> One
  BY DEF OneOpenSubscription, Running
<1>2. Init => One
  BY DEF Init, ContractsInit, Running, Exists, IsEmpty, EmptyContract
<1>3. ASSUME IInv, One, [Next]_vars PROVE One'
  <2>1. CASE \/ UNCHANGED <<contracts, height>>
             \/ \E S \in SUBSET Ids, isFinal \in BOOLEAN :
                  Settling(S, isFinal) /\ height' >= height /\ height' \in Nat
    <3> SUFFICES ASSUME NEW i \in Ids, NEW j \in Ids, Running(i)', Running(j)',
                        Spender(i)' = Spender(j)',
                        contracts'[i].provider = contracts'[j].provider
                 PROVE  i = j
      OBVIOUS
    <3>1. /\ Running(i) /\ Spender(i)' = Spender(i)
          /\ contracts'[i].provider = contracts[i].provider
      BY <1>3, <2>1, RunningBefore
    <3>2. /\ Running(j) /\ Spender(j)' = Spender(j)
          /\ contracts'[j].provider = contracts[j].provider
      BY <1>3, <2>1, RunningBefore
    <3> QED
      BY <1>3, <3>1, <3>2, ZenonT(60)
  <2>2. ASSUME NEW r \in Requests, NEW p \in Providers, NEW client \in Users,
               NEW delegate \in Users \cup {EmptyPubKey}, OpenContract(r, p, client, delegate)
        PROVE  One'
    <3> DEFINE c == NewContract(r, p, client, delegate)
    <3>1. PICK n \in Ids : n = nextId
      BY <2>2 DEF OpenContract
    <3>2. /\ OpenContractValidate(r, p, GetSpender(c))
          /\ contracts' = [contracts EXCEPT ![n] = c] /\ height' = height
      BY <2>2, <3>1 DEF OpenContract
    <3>3. /\ contracts \in [Ids -> Contract \cup {EmptyContract}] /\ height \in Heights
      BY <1>3 DEF IInv, TypeOK
    <3>4. GetSpender(c) \in Users
      BY <3>2, <3>3, NewContractType, ZenonT(60)
    <3>5. c.provider = p /\ c.type = r.type
      BY ZenonT(60) DEF NewContract
    <3> HIDE DEF c
    <3>6. contracts'[n] = c /\ \A id \in Ids \ {n} : contracts'[id] = contracts[id]
      BY <3>2, <3>3
    <3>7. \A id \in Ids \ {n} : /\ Running(id)' <=> Running(id)
                                /\ Spender(id)' = Spender(id)
      BY <3>2, <3>6 DEF Running, Exists, Settled, Spender
    <3>8. ASSUME NEW id \in Ids, id # n, Running(id), Running(n)', Spender(id) = GetSpender(c),
                 contracts[id].provider = p
          PROVE  FALSE
      <4>1. r.type = SUBSCRIPTION
        BY <3>5, <3>6, <3>8, ZenonT(60) DEF Running, IsSubscription
      <4>2. ~HasActiveContract(GetSpender(c), p)
        BY <3>2, <4>1, ZenonT(60) DEF OpenContractValidate, SUBSCRIPTION, PAY_AS_YOU_GO
      <4>3. id \in userSet[GetSpender(c)]
        BY <1>3, <3>4, <3>8, ZenonT(60) DEF IInv, UserSetHoldsUnsettled, Running
      <4>4. IsOpen(contracts[id], height)
        BY <3>8, ZenonT(60) DEF Running, IsOpen, Exists, Settled
      <4> QED
        BY <3>8, <4>2, <4>3, <4>4, ZenonT(60) DEF HasActiveContract
    <3>9. Spender(n)' = GetSpender(c) /\ contracts'[n].provider = p
      BY <3>5, <3>6, ZenonT(60) DEF Spender
    <3> QED
      BY <1>3, <3>6, <3>7, <3>8, <3>9, ZenonT(60)
  <2>3. height' \in Heights => height' \in Nat
    BY DEF Heights
  <2> QED
    BY <1>3, <2>1, <2>2, <2>3, PaymentKinds, ZenonT(60)
<1> HIDE DEF One
<1> QED
  BY <1>1, <1>2, <1>3, Invariant, PTL DEF Spec

-----------------------------------------------------------------------------
(* The balances always agree *)

\* The lemmas about sums.
INSTANCE SumTheorems

\* What was assumed of sums holds.
LEMMA SumFactsHold == SumFacts
<1>1. FiniteSums
  <2>1. MaxContracts \in Int
    BY MarketAssumptions
  <2>2. IsFiniteSet(Ids)
    BY <2>1, FS_Interval DEF Ids
  <2> QED
    BY <2>2, FS_Subset DEF FiniteSums
<1>2. NatSums
  BY SumNat, ZenonT(60) DEF NatSums
<1>3. ZeroSums
  BY SumZero, ZenonT(60) DEF ZeroSums
<1>4. AddedSums
  BY SumAdd, ZenonT(60) DEF AddedSums
<1>5. PartSums
  BY SumPart, ZenonT(60) DEF PartSums
<1>6. SameSums
  BY SumSame, ZenonT(60) DEF SameSums
<1>7. ChangedSums
  BY SumUpdate DEF ChangedSums
<1> QED
  BY <1>1, <1>2, <1>3, <1>4, <1>5, <1>6, <1>7, ZenonT(60) DEF SumFacts

\* The balances always agree with the records.
THEOREM BalancedAlways == Spec => []Balanced
<1>1. IInv /\ Balanced /\ [Next]_vars => Balanced'
  BY NextBalanced, SumFactsHold
<1>2. Init => Balanced
  BY InitBalanced, SumFactsHold
<1> QED
  BY <1>1, <1>2, Invariant, PTL DEF Spec

\* No account is ever overdrawn: none of the unguarded transfers out of a module
\* account, in BondProvider and SettleContract, can fail.
THEOREM NeverOverdrawn == Spec => []NoOverdraft
<1>1. Balanced => NoOverdraft
  BY DEF Balanced
<1> QED
  BY <1>1, BalancedAlways, PTL

\* The contract module holds exactly what is left of the deposits, so that
\* invariantContractModule never fails.
THEOREM DepositsBacked == Spec => []ContractModuleBacked
<1>1. Balanced => ContractModuleBacked
  BY DEF Balanced
<1> QED
  BY <1>1, BalancedAlways, PTL

\* The provider module holds exactly the bonds, so that invariantBondModule never
\* fails.
THEOREM BondsBacked == Spec => []BondModuleBacked
<1>1. Balanced => BondModuleBacked
  BY DEF Balanced
<1> QED
  BY <1>1, BalancedAlways, PTL
=============================================================================
