----------------------------- MODULE MCAccounts -----------------------------
(***************************************************************************)
(* The three machines of the key store, one of which runs: part is chosen  *)
(* in the initial state, and the other two stay in one fixed state.        *)
(***************************************************************************)
EXTENDS KeyCache, KeyWallets, KeyLock

CONSTANTS addr1, addr2

VARIABLE part

accountVars == <<keyVars, walletVars, lockVars, part>>

\* The wallets of the instance: two files, one of which changes its address.
Accts == {<<1, addr1>>, <<1, addr2>>, <<2, addr1>>}

\* Key files of the older versions that can be read: version 1, and version 3 with a
\* cipher that is not supported.
V1 == [version |-> 1, kdf |-> "pbkdf2", prf |-> "hmac-sha256", cipher |-> "aes-128-cbc",
       mac |-> TRUE, pass |-> "p", key |-> "own"]
V3 == [version |-> 3, kdf |-> "scrypt", prf |-> None, cipher |-> "aes-128-cbc",
       mac |-> TRUE, pass |-> "p", key |-> "own"]
Old == {V1, V3, EncryptKey("own", "p")}

MCInit ==
  /\ part \in {"cache", "wallets", "lock"}
  /\ KeyInit /\ WalletInit /\ LockInit
  /\ part # "cache" => \A f \in KeyFiles : disk[f] = None
  /\ part # "wallets" => accs = <<>>
  /\ part # "lock" => \A p \in Paths : files[p] = None

MCNext ==
  \/ part = "cache" /\ KeyNext /\ UNCHANGED <<walletVars, lockVars, part>>
  \/ part = "wallets" /\ WalletNext /\ UNCHANGED <<keyVars, lockVars, part>>
  \/ part = "lock" /\ LockNext /\ UNCHANGED <<keyVars, walletVars, part>>

\* The fairness of each machine, for the part that runs: the others stay where they are.
MCSpec ==
  /\ MCInit /\ [][MCNext]_accountVars
  /\ \A s \in Scanners : WF_keyVars(part = "cache" /\ ScanStep(s))
  /\ WF_keyVars(part = "cache" /\ WatchStep) /\ WF_keyVars(part = "cache" /\ ThrottleFires)
  /\ WF_keyVars(part = "cache" /\ ChangeCache)
  /\ WF_keyVars(part = "cache" /\ Query) /\ WF_keyVars(part = "cache" /\ QueryScanned)
  /\ WF_walletVars(part = "wallets" /\ UpdaterRefresh) /\ WF_walletVars(part = "wallets" /\ NewManager)
  /\ WF_walletVars(part = "wallets" /\ Subscribe) /\ WF_walletVars(part = "wallets" /\ Update)
  /\ WF_walletVars(part = "wallets" /\ Unsubscribe)
  /\ \A r \in Refreshers : SF_walletVars(part = "wallets" /\ RefresherNext(r))
  /\ WF_lockVars(part = "lock" /\ \E u \in timers : Expires(u))

\* The cache follows the key directory and the manager's wallets follow the key store's.
AccountsFollow == KeyTypeOK /\ CacheIsDirectory /\ WalletTypeOK /\ ManagerFollows

\* What was changed arrives, and nobody waits for ever: the cache catches up with the
\* directory and the wallets with the cache, refreshes return, the updater and timed
\* unlocks end.
AccountsSettle == CatchesUp /\ WalletsFollow /\ RefreshesReturn /\ UpdaterEnds /\ UnlockEnds
=============================================================================
