--------------------------- MODULE MCTransactions ---------------------------
(***************************************************************************)
(* What becomes of a transaction before the pool has it, in four machines  *)
(* one of which runs: its data is packed, it is signed and its sender      *)
(* recovered, the node sends it for an account, and it is put in a list.   *)
(* part is chosen in the initial state, and the others stay in one fixed   *)
(* state.                                                                  *)
(***************************************************************************)
EXTENDS ABICodec, TxSigning, TxAPI, TxList

VARIABLE part

\* ABICodec: arguments of every type the codec knows, and fields of a JSON
\* interface with overloaded and with special names.
El(T, size) == [T |-> T, size |-> size]
U1 == El("uint", 1)
Str == El("string", 0)
Arr(e, n) == [T |-> "array", size |-> n, elem |-> e]
Sl(e) == [T |-> "slice", size |-> 0, elem |-> e]
Tup(es) == [T |-> "tuple", size |-> 0, elems |-> es]
Arg(t, v) == [type |-> t, value |-> v]
MCArguments == {
  Arg(U1, 3), Arg(El("int", 1), -2), Arg(El("int", 2), -5), Arg(El("int", 4), -7),
  Arg(El("uint", 4), 200), Arg(El("bool", 0), TRUE), Arg(El("address", 3), <<1, 2, 3>>),
  Arg(El("fixedbytes", 2), <<3, 1>>), Arg(El("function", 3), <<1, 0, 2>>),
  Arg(Str, << >>), Arg(Str, <<1, 2, 3, 0, 1>>), Arg(El("bytes", 0), <<1, 2, 3, 3>>),
  Arg(Arr(U1, 2), <<1, 2>>), Arg(Arr(Str, 2), << <<1>>, <<2, 1>> >>),
  Arg(Sl(U1), <<2, 3, 1>>), Arg(Sl(Str), << >>),
  Arg(Sl(Arr(U1, 2)), << <<1, 2>>, <<3, 0>> >>),
  Arg(Tup(<<U1, Arr(U1, 2), El("bool", 0)>>), <<1, <<2, 3>>, FALSE>>),
  Arg(Tup(<<Arr(U1, 2), Str, U1>>), << <<1, 3>>, <<2>>, 3>>),
  Arg(Arr(Tup(<<U1, U1>>), 2), << <<1, 2>>, <<3, 1>> >>),
  Arg(Sl(Tup(<<Str, U1>>)), << << <<1>>, 2>> >>) }
Field(type, name, types) == [type |-> type, name |-> name, types |-> types, payable |-> FALSE]
MCFields == {
  Field("function", <<"send">>, <<"uint">>), Field("function", <<"send">>, <<"int">>),
  Field("function", <<"send", 0>>, << >>),
  Field("event", <<"sent">>, <<"uint">>), Field("event", <<"sent">>, <<"int">>),
  Field("constructor", << >>, << >>), Field("fallback", << >>, << >>),
  Field("receive", << >>, << >>),
  [Field("receive", << >>, << >>) EXCEPT !.payable = TRUE],
  Field("error", << >>, << >>) }

\* TxList: two transactions of one nonce, and a gap.
MCListNonce == <<0, 0, 1, 2, 4>>
MCListPrice == <<1, 2, 1, 1, 1>>
MCListCost == <<1, 3, 2, 1, 2>>
MCListGas == <<0, 0, 1, 0, 0>>

\* TxSigning: two keys, chain ids on both sides of the word, and transactions as a
\* node signs them and as it receives them: any V with any signature, a high S among them.
MCChainIds == {0, 1, 2, 498, 600}
SignedTxs == UNION {SignTx(body, s, k) : body \in {"x", "y"}, s \in TxSigners, k \in SigKeys}
ReceivedTxs ==
  {[body |-> "x", v |-> v, sig |-> g] :
     v \in (0..1) \cup (26..41) \cup (255..257) \cup (1023..1025) \cup {1235, 1236},
     g \in {None} \cup {[t.sig EXCEPT !.low = l] : t \in {u \in SignedTxs : u.sig.key = "ka"},
                                                   l \in BOOLEAN}}
Protected == CHOOSE t \in SignTx("x", NewEIP155Signer(1), "ka") : TRUE
Plain == CHOOSE t \in SignTx("x", HomesteadSigner, "ka") : TRUE
\* The batches the cacher works on; the others are only signed and decoded.
Recovered == {<<>>, <<Protected>>, <<Plain>>, <<NewTransaction("x")>>, [i \in 1..5 |-> Protected]}
MCBatches == Recovered \cup {<<t>> : t \in SignedTxs \cup ReceivedTxs}
Caller(s) == [signer |-> s]
MCFeeders == {Caller(MakeSigner), Caller(NewEIP155Signer(1))}
MCAskers == MCFeeders \cup {Caller(FrontierSigner)}

\* TxAPI: three calls for one address, with and without a nonce, a recipient, gas and
\* data, and one for an address the node has no wallet of.
Args(n, to, gas, price) ==
  [from |-> "ka", nonce |-> n, to |-> to, data |-> ~to, gas |-> gas, price |-> price]
A0 == Args(None, TRUE, None, 0)
A1 == Args(None, TRUE, None, 1)
Create == Args(None, FALSE, None, 0)
MCArgs == {
  <<A0, A0, A1>>, <<A0, Args(0, TRUE, None, 1), A1>>, <<A0, Args(None, TRUE, 1, 0), Create>>,
  <<A0, Args(1, TRUE, None, 0), [Create EXCEPT !.data = FALSE]>>,
  <<Args(0, TRUE, None, 0), A1, Args(None, TRUE, None, 2)>>,
  <<A0, A1, [A0 EXCEPT !.from = "kb"]>> }

TransactionsInit ==
  /\ CodecInit /\ SignInit /\ APIInit /\ ListInit
  /\ part # "sign" => batch = <<>>
  /\ part # "send" => args = CHOOSE x \in RequestArgs : TRUE
  /\ part # "list" => ~strict

transactionVars == <<codecVars, signVars, apiVars, listVars>>

TransactionsNext ==
  \/ part = "codec" /\ CodecNext /\ UNCHANGED <<signVars, apiVars, listVars>>
  \/ /\ part = "sign" /\ batch \in Recovered
     /\ CacherNext \/ (Len(batch) = 1 /\ AskNext)
     /\ UNCHANGED <<codecVars, apiVars, listVars>>
  \/ part = "send" /\ APINext /\ UNCHANGED <<codecVars, signVars, listVars>>
  \/ part = "list" /\ ListNext /\ UNCHANGED <<codecVars, signVars, apiVars>>

\* The fairness of the machines, for the part that runs.
TransactionsFair ==
  /\ \A f \in Feeders : WF_signVars(part = "sign" /\ RecoverSends(f))
  /\ \A w \in 1..CacherThreads :
       /\ WF_signVars(part = "sign" /\ CacheTakes(w))
       /\ WF_signVars(part = "sign" /\ (CacheLooks(w) \/ CacheStores(w)))
  /\ \A r \in Requests : WF_apiVars(part = "send" /\ RequestNext(r))
  /\ WF_apiVars(part = "send" /\ ReorgNext)

TransactionsSpec ==
  /\ part \in {"codec", "sign", "send", "list"} /\ TransactionsInit
  /\ [][TransactionsNext /\ UNCHANGED part]_<<part, transactionVars>>
  /\ TransactionsFair

\* No caller waits for ever: recover hands out its whole batch, and SendTransaction returns.
CallsEnd == BatchRecovered /\ RequestsReturn
=============================================================================
