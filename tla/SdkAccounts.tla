----------------------------- MODULE SdkAccounts -----------------------------
(* What the parts of the SDK share: the wallets they are called for.          *)
CONSTANTS
    Wallets,        \* the wallets of the users
    None            \* no wallet, no session, no credential

ASSUME NoneIsNoWallet == None \notin Wallets
=============================================================================
