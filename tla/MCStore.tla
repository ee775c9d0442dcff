------------------------------ MODULE MCStore ------------------------------
(* Small instances of Store for TLC.                                        *)
EXTENDS StoreRefinement

\* The domain prefix; the device lists that follow the header are one byte.
MCDomain == <<9>>

\* Lamports 1 and u64::MAX, the latter with two different device lists.
MCPayloads == {account_payload(1, <<0>>), account_payload(MaxLamport, <<0>>),
               account_payload(MaxLamport, <<1>>)}

MCTwoPayloads == {account_payload(1, <<0>>), account_payload(2, <<0>>)}

\* A log and one that forks from it.
MCTwoLogs == {<<"x">>, <<"y">>}

\* One device list, published again and again.
MCOnePayload == {account_payload(1, <<0>>)}
=============================================================================
