---------------------------- MODULE WalletAdapter ----------------------------
(***************************************************************************)
(* The wallet adapters of interface.ts.  connect awaits the extension of the *)
(* browser, and may be called again, or disconnect be called, before that    *)
(* answers.  Nothing tells the adapter when the user selects another account.*)
(***************************************************************************)
EXTENDS SdkAccounts, FiniteSets

CONSTANTS
    Connects,       \* slots for calls of connect in flight
    Listeners       \* the callbacks of the page

VARIABLES
    account,    \* the account that is selected in the extension; None without one
    adapter,    \* the kind of adapter, _publicKey and _connected
    connecting, \* for each call of connect its stage, and the key it was answered
    listening,  \* eventListeners
    heard,      \* what each callback was told last: the key, None for a disconnect
    page        \* history: what was called last, what disturbed it, what was signed for

adapterVars == <<account, adapter, connecting, listening, heard, page>>

Kind   == {"phantom", "solflare"}
Event  == {"connect", "disconnect"}
NoConnect == [at |-> "idle", key |-> None, stale |-> FALSE]

AdapterTypeOK ==
    /\ account \in Wallets \cup {None}
    /\ adapter \in [kind : Kind, publicKey : Wallets \cup {None}, connected : BOOLEAN]
    /\ connecting \in [Connects -> [at : {"idle", "asked", "answered"},
                                 key : Wallets \cup {None}, stale : BOOLEAN]]
    /\ listening \in [Event -> SUBSET Listeners]
    /\ heard \in [Listeners -> Wallets \cup {None}]
    /\ page \in [wants : Event, overlap : BOOLEAN, switched : BOOLEAN,
                 told : SUBSET Listeners, signed : Wallets \cup {None}]

\* createWalletAdapter: nothing is asked of the extension.
AdapterInit ==
    /\ account \in Wallets \cup {None}
    /\ adapter \in [kind : Kind, publicKey : {None}, connected : {FALSE}]
    /\ connecting = [c \in Connects |-> NoConnect]
    /\ listening = [e \in Event |-> {}]
    /\ heard = [l \in Listeners |-> None]
    /\ page = [wants |-> "disconnect", overlap |-> FALSE, switched |-> FALSE, told |-> {},
               signed |-> None]

ConnectsInFlight == {c \in Connects : connecting[c].at # "idle"}

\* emit calls the callbacks in the step that changed the adapter.
Emit(event, key) ==
    heard' = [l \in Listeners |-> IF l \in listening[event] THEN key ELSE heard[l]]

\* The callbacks that are told of changes of both kinds.
Told == listening["connect"] \intersect listening["disconnect"]

Connected(key) ==
    /\ adapter' = [adapter EXCEPT !.publicKey = key, !.connected = TRUE]
    /\ Emit("connect", key)

Stay == UNCHANGED <<adapter, heard>>

\* Up to its await. Without the extension it connects at once, to a key made up for it.
Connect(c) ==
    /\ connecting[c].at = "idle"
    /\ IF account # None
       THEN /\ connecting' = [connecting EXCEPT ![c].at = "asked"]
            /\ Stay
            /\ page' = [page EXCEPT !.wants = "connect"]
       ELSE /\ \E key \in Wallets : Connected(key)
            /\ UNCHANGED connecting
            /\ page' = [page EXCEPT !.wants = "connect", !.told = Told]
    /\ UNCHANGED <<account, listening>>

\* The user approves in the extension, which answers with its account, or with none.
Approves(c) ==
    /\ connecting[c].at = "asked"
    /\ \E key \in {account, None} :
          connecting' = [connecting EXCEPT ![c] = [@ EXCEPT !.at = "answered", !.key = key]]
    /\ UNCHANGED <<account, adapter, listening, heard, page>>

Rejects(c) ==
    /\ connecting[c].at = "asked"
    /\ connecting' = [connecting EXCEPT ![c] = NoConnect]
    /\ UNCHANGED <<account, adapter, listening, heard, page>>

Resume(c, key) ==
    /\ connecting[c].at = "answered"
    /\ connecting' = [connecting EXCEPT ![c] = NoConnect]
    /\ IF key # None
       THEN /\ Connected(key)
            /\ page' = [page EXCEPT !.told = Told, !.switched = connecting[c].stale]
       ELSE Stay /\ UNCHANGED page
    /\ UNCHANGED <<account, listening>>

\* Phantom's key is in its answer; Solflare's is read from the extension afterwards.
PhantomConnected(c)  == adapter.kind = "phantom" /\ Resume(c, connecting[c].key)
SolflareConnected(c) == adapter.kind = "solflare" /\ Resume(c, account)

\* Mutant: the callbacks are told, but the key stays.
DisconnectKeepingKey ==
    /\ adapter' = [adapter EXCEPT !.connected = FALSE]
    /\ Emit("disconnect", None)
    /\ page' = [page EXCEPT !.wants = "disconnect", !.overlap = ConnectsInFlight # {},
                            !.told = Told]
    /\ UNCHANGED <<account, connecting, listening>>

\* The extension is not asked, and a connect in flight is not stopped.
CloseConnection ==
    /\ adapter' = [adapter EXCEPT !.publicKey = None, !.connected = FALSE]
    /\ Emit("disconnect", None)
    /\ page' = [page EXCEPT !.wants = "disconnect", !.overlap = ConnectsInFlight # {},
                            !.told = Told]
    /\ UNCHANGED <<account, connecting, listening>>

\* signTransaction, signAllTransactions and signMessage ask whether the adapter is connected
\* and, as mocks, leave the extension out.
Sign ==
    /\ adapter.connected
    /\ page' = [page EXCEPT !.signed = adapter.publicKey]
    /\ UNCHANGED <<account, adapter, connecting, listening, heard>>

On(event, l) ==
    /\ listening' = [listening EXCEPT ![event] = @ \union {l}]
    /\ UNCHANGED <<account, adapter, connecting, heard, page>>

Off(event, l) ==
    /\ listening' = [listening EXCEPT ![event] = @ \ {l}]
    /\ UNCHANGED <<account, adapter, connecting, heard, page>>

\* The user selects another account.
SwitchAccount(w) ==
    /\ account # None /\ w # account
    /\ account' = w
    /\ connecting' = [c \in Connects |-> [connecting[c] EXCEPT !.stale = connecting[c].at # "idle"]]
    /\ page' = [page EXCEPT !.switched = TRUE]
    /\ UNCHANGED <<adapter, listening, heard>>

Adapter ==
    \/ \E c \in Connects :
          Connect(c) \/ Approves(c) \/ Rejects(c) \/ PhantomConnected(c) \/ SolflareConnected(c)
    \/ CloseConnection
    \/ Sign
    \/ \E e \in Event, l \in Listeners : On(e, l) \/ Off(e, l)
    \/ \E w \in Wallets : SwitchAccount(w)
=============================================================================
