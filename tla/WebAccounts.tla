---------------------------- MODULE WebAccounts ----------------------------
(***************************************************************************)
(* The subaccounts a page of the web application knows and the one it      *)
(* trades with (stores/account.ts, useCoveredCallSubaccount.ts,            *)
(* lib/protocol/subaccounts.ts): discovery through the service's directory *)
(* or a scan of events, validation against the chain, creation, selection, *)
(* and what the browser remembers for each wallet.                         *)
(*                                                                         *)
(* The wallet may be switched while discoveries and creations of another   *)
(* are under way, and their answers still come.  The query library keeps   *)
(* one entry for each wallet, with one fetch at a time, which outlives the *)
(* components that asked for it.  Storage may hold anything and may refuse *)
(* a write.                                                                *)
(***************************************************************************)
EXTENDS Integers, FiniteSetsExt

CONSTANTS
    Wallets,         \* with the network and Matching they are the store's scopes
    Subaccounts,     \* ids, which Matching gives out in order
    NoWallet, NoSubaccount, NoList,
    MaxSwitches      \* bound on connections, disconnections and page loads

ASSUME WebAccountsAssumption ==
    /\ Subaccounts \subseteq Nat /\ IsFiniteSet(Subaccounts)
    /\ NoSubaccount \notin Subaccounts /\ NoWallet \notin Wallets
    /\ MaxSwitches \in Nat

VARIABLES
    depositor,       \* whose subaccount it is, by Matching's event
    store,           \* useAccountStore
    remembers,       \* the browser's storage, for each wallet
    found,           \* the query's data, for each wallet
    fetches,         \* the query's fetch, for each wallet
    creation,        \* createSubaccount
    switches

webAccountVars == <<depositor, store, remembers, found, fetches, creation, switches>>

-----------------------------------------------------------------------------
AccountsOf(w) == {a \in Subaccounts : depositor[a] = w}

NoFetch == [at |-> "idle", ids |-> {}]
Asking == [at |-> "directory", ids |-> {}]
NoCreation == [at |-> "idle", wallet |-> NoWallet, id |-> NoSubaccount]

\* The store for a wallet; whether a trade locks it belongs to no wallet.
FreshStore(w, remembered, locked) ==
    [scope |-> w, accounts |-> {}, selected |-> NoSubaccount,
     remembered |-> remembered, locked |-> locked]

\* resolveSelectedAccountId
ResolveSelected(ids, selected, remembered) ==
    CASE selected \in ids -> selected
      [] selected \notin ids /\ remembered \in ids -> remembered
      [] {selected, remembered} \cap ids = {} -> IF ids = {} THEN NoSubaccount ELSE Min(ids)

WithAccounts(s, ids, selected) ==
    [s EXCEPT !.accounts = ids, !.selected = selected, !.remembered = selected]

\* replaceAccounts
Replaced(s, w, ids) ==
    IF s.scope # w THEN s
    ELSE WithAccounts(s, ids, ResolveSelected(ids, s.selected, s.remembered))

\* Mutant: upsertAccount does not look at the scope.
UpsertedAnywhere(s, w, a) == WithAccounts(s, s.accounts \cup {a}, a)

\* upsertAccount, selecting it
Upserted(s, w, a) ==
    IF s.scope # w THEN s ELSE WithAccounts(s, s.accounts \cup {a}, a)

\* writeRememberedSubaccountId, unless storage refuses
StoreChosen(w, s) ==
    /\ store' = s
    /\ remembers' \in {remembers} \cup
           (IF store.scope = w THEN {[remembers EXCEPT ![w] = s.selected]} ELSE {})

\* includeRememberedAccount; a candidate that no contract knows fails validation.
RememberedFor(w) ==
    CASE store.scope # w -> remembers[w]
      [] store.scope = w /\ store.selected # NoSubaccount -> store.selected
      [] store.scope = w /\ store.selected = NoSubaccount -> store.remembered

WebAccountsInit ==
    /\ depositor = [a \in Subaccounts |-> NoWallet]
    /\ store = FreshStore(NoWallet, NoSubaccount, FALSE)
    /\ remembers \in [Wallets -> Subaccounts \cup {NoSubaccount}]
    /\ found = [w \in Wallets |-> NoList]
    /\ fetches = [w \in Wallets |-> NoFetch]
    /\ creation = NoCreation
    /\ switches = 0

-----------------------------------------------------------------------------
(* The chain.                                                              *)

NextSubaccount == Min({a \in Subaccounts : depositor[a] = NoWallet})

Minted(w) ==
    /\ \E a \in Subaccounts : depositor[a] = NoWallet
    /\ depositor' = [depositor EXCEPT ![NextSubaccount] = w]

\* The wallet creates a subaccount elsewhere.
MintElsewhere(w) ==
    /\ Minted(w)
    /\ UNCHANGED <<store, remembers, found, fetches, creation, switches>>

-----------------------------------------------------------------------------
(* The hook, in every component that uses it.                              *)

\* What a query does when a component starts to look at it: fetch without
\* data, maybe fetch again with old data.
Observed(w) ==
    CASE w = NoWallet \/ fetches[w].at # "idle" -> {fetches}
      [] w # NoWallet /\ fetches[w].at = "idle" ->
            {[fetches EXCEPT ![w] = Asking]} \cup (IF found[w] = NoList THEN {} ELSE {fetches})

\* Another wallet, or none: setScope, then replaceAccounts with the data the
\* cache has for it.
SwitchWallet(w) ==
    /\ switches < MaxSwitches /\ switches' = switches + 1
    /\ w # store.scope
    /\ LET remembered == IF w = NoWallet THEN NoSubaccount ELSE remembers[w]
           fresh == FreshStore(w, remembered, store.locked)
           cached == w # NoWallet /\ found[w] # NoList
       IN  /\ store' = IF cached THEN Replaced(fresh, w, found[w]) ELSE fresh
           /\ IF cached THEN remembers' \in {remembers, [remembers EXCEPT ![w] = store'.selected]}
                        ELSE UNCHANGED remembers
    /\ fetches' \in Observed(w)
    /\ UNCHANGED <<depositor, found, creation>>

\* A component that uses the hook mounts: its effect applies the cached data.
MountComponent ==
    LET w == store.scope IN
    /\ w # NoWallet /\ found[w] # NoList
    /\ StoreChosen(w, Replaced(store, w, found[w]))
    /\ fetches' \in Observed(w)
    /\ UNCHANGED <<depositor, found, creation, switches>>

\* refetch, of the menu's retry button and of a network that comes back
Refetch ==
    /\ store.scope # NoWallet
    /\ fetches[store.scope].at = "idle" \/ found[store.scope] # NoList
    /\ fetches' = [fetches EXCEPT ![store.scope] = Asking]
    /\ UNCHANGED <<depositor, store, remembers, found, creation, switches>>

\* The page is loaded anew.
LoadAccounts ==
    /\ switches < MaxSwitches /\ switches' = switches + 1
    /\ store' = FreshStore(NoWallet, NoSubaccount, FALSE)
    /\ found' = [w \in Wallets |-> NoList]
    /\ fetches' = [w \in Wallets |-> NoFetch]
    /\ creation' = NoCreation
    /\ UNCHANGED <<depositor, remembers>>

-----------------------------------------------------------------------------
(* discoverSubaccounts.                                                    *)

Candidates(w, ids) ==
    fetches' = [fetches EXCEPT ![w] =
                   [at |-> "validate", ids |-> ids \cup ({RememberedFor(w)} \cap Subaccounts)]]

\* The directory lags behind the chain: SubaccountDirectory models it.
DirectoryAnswers(w) ==
    /\ fetches[w].at = "directory"
    /\ \E ids \in SUBSET AccountsOf(w) : Candidates(w, ids)
    /\ UNCHANGED <<depositor, store, remembers, found, creation, switches>>

\* It fails, or speaks of another deployment.
DirectoryUnusable(w) ==
    /\ fetches[w].at = "directory"
    /\ fetches' = [fetches EXCEPT ![w] = [at |-> "scan", ids |-> {}]]
    /\ UNCHANGED <<depositor, store, remembers, found, creation, switches>>

ScanAnswers(w) ==
    /\ fetches[w].at = "scan"
    /\ Candidates(w, AccountsOf(w))
    /\ UNCHANGED <<depositor, store, remembers, found, creation, switches>>

DiscoveryFails(w) ==
    /\ fetches[w].at \in {"scan", "validate"}
    /\ fetches' = [fetches EXCEPT ![w] = NoFetch]
    /\ UNCHANGED <<depositor, store, remembers, found, creation, switches>>

\* summarizeValidatedSubaccounts
Summarized(w, ids) == ids \cap AccountsOf(w)

\* One multicall, in which single reads may fail.  Components look at the data
\* of the connected wallet only, and only when it has changed: balances and the
\* directory's block count.
CandidatesValidated(w) ==
    /\ fetches[w].at = "validate"
    /\ \E ids \in SUBSET Summarized(w, fetches[w].ids) :
          /\ found' = [found EXCEPT ![w] = ids]
          /\ \/ /\ store.scope = w
                /\ StoreChosen(w, Replaced(store, w, ids))
             \/ /\ store.scope # w \/ ids = found[w]
                /\ UNCHANGED <<store, remembers>>
    /\ fetches' = [fetches EXCEPT ![w] = NoFetch]
    /\ UNCHANGED <<depositor, creation, switches>>

-----------------------------------------------------------------------------
(* createSubaccount.                                                       *)

StartCreation ==
    /\ creation.at = "idle" /\ store.scope # NoWallet /\ ~store.locked
    /\ creation' = [NoCreation EXCEPT !.at = "mining", !.wallet = store.scope]
    /\ UNCHANGED <<depositor, store, remembers, found, fetches, switches>>

CreationMined ==
    /\ creation.at = "mining"
    /\ Minted(creation.wallet)
    /\ creation' = [creation EXCEPT !.at = "validate", !.id = NextSubaccount]
    /\ UNCHANGED <<store, remembers, found, fetches, switches>>

\* The wallet refuses, the transaction reverts, or a read fails.
CreationFails ==
    /\ creation.at # "idle"
    /\ creation' = NoCreation
    /\ UNCHANGED <<depositor, store, remembers, found, fetches, switches>>

\* The created account is inserted and selected, and the query of its wallet
\* is invalidated: with data and a component that looks at it, it starts over.
CreationValidated ==
    /\ creation.at = "validate"
    /\ LET w == creation.wallet
       IN  /\ StoreChosen(w, Upserted(store, w, creation.id))
           /\ fetches' = IF store.scope = w /\ (found[w] # NoList \/ fetches[w].at = "idle")
                         THEN [fetches EXCEPT ![w] = Asking]
                         ELSE fetches
    /\ creation' = NoCreation
    /\ UNCHANGED <<depositor, found, switches>>

-----------------------------------------------------------------------------
(* The user, and the trade form.                                           *)

\* selectAccount
SelectAccount(a) ==
    /\ store.scope # NoWallet /\ ~store.locked
    /\ a \in store.accounts \cup {NoSubaccount}
    /\ StoreChosen(store.scope, [store EXCEPT !.selected = a, !.remembered = a])
    /\ UNCHANGED <<depositor, found, fetches, creation, switches>>

\* useSubaccountSelectionLock
SetSelectionLocked ==
    /\ switches < MaxSwitches /\ switches' = switches + 1
    /\ store' = [store EXCEPT !.locked = ~store.locked]
    /\ UNCHANGED <<depositor, remembers, found, fetches, creation>>

WebAccountsNext ==
    \/ \E w \in Wallets :
          \/ MintElsewhere(w) \/ DirectoryAnswers(w) \/ DirectoryUnusable(w) \/ ScanAnswers(w)
          \/ DiscoveryFails(w) \/ CandidatesValidated(w)
    \/ \E w \in Wallets \cup {NoWallet} : SwitchWallet(w)
    \/ \E a \in Subaccounts \cup {NoSubaccount} : SelectAccount(a)
    \/ MountComponent \/ Refetch \/ LoadAccounts
    \/ StartCreation \/ CreationMined \/ CreationFails \/ CreationValidated
    \/ SetSelectionLocked

WebAccountsSpec == WebAccountsInit /\ [][WebAccountsNext]_webAccountVars

-----------------------------------------------------------------------------
\* The store, the cache and the calls have their types.
WebAccountsTypeOK ==
    /\ depositor \in [Subaccounts -> Wallets \cup {NoWallet}]
    /\ store \in [scope : Wallets \cup {NoWallet}, accounts : SUBSET Subaccounts,
                  selected : Subaccounts \cup {NoSubaccount},
                  remembered : Subaccounts \cup {NoSubaccount}, locked : BOOLEAN]
    /\ remembers \in [Wallets -> Subaccounts \cup {NoSubaccount}]
    /\ found \in [Wallets -> (SUBSET Subaccounts) \cup {NoList}]
    /\ creation.at \in {"idle", "mining", "validate"}

\* Whatever the browser remembered, and whichever wallets were connected while
\* directories, scans, validations and creations were under way: the page lists
\* only subaccounts of the connected wallet, and the one it trades with is
\* among them (useAccountStore, "scope-safe, validation-gated").
SelectionIsOwn ==
    /\ store.accounts \subseteq AccountsOf(store.scope)
    /\ store.selected \in store.accounts \cup {NoSubaccount}
=============================================================================
