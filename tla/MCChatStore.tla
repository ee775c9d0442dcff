---------------------------- MODULE MCChatStore ----------------------------
(* Small instances of ChatStore for TLC.  One account "a" or one device "d",  *)
(* and a stranger's key "z" that signs what it should not.                    *)
EXTENDS ChatStore, StoreRefinement

\* A submission as an honest client makes it, and ways to spoil one.
Honest(kind, key, payload) ==
  [kind |-> kind, decodes |-> TRUE, upper |-> FALSE, key |-> key, keyLen |-> 32,
   payload |-> payload, by |-> key, over |-> payload, sigLen |-> 64]
Uppercase(s) == [s EXCEPT !.upper = TRUE]
Garbled(s)   == [s EXCEPT !.decodes = FALSE]
Truncated(s) == [s EXCEPT !.sigLen = 63]
Forged(s)    == [s EXCEPT !.by = "z"]
Tampered(s)  == [s EXCEPT !.over = "original"]

MCDomain == <<9>>
Bundle1 == account_payload(1, <<0>>)
Bundle2 == account_payload(2, <<0>>)
Bundle3 == account_payload(3, <<1>>)
\* A header one byte short.
Headless == Front(account_payload(2, <<>>))
MCBundles == {Bundle1, Bundle2, Bundle3}

\* Liveness does not depend on which list is published: one will do.
MCAccountPosts == {Honest("account", "a", Bundle1)}
MCAccountMessages ==
  {Honest("account", "a", Bundle1), Garbled(Honest("account", "a", Bundle2))}

\* The log <<"z">> is never signed by the account: only a forgery carries it.
MCSignedLogs == {<<"x">>, <<"x", "y">>, <<"y">>}
MCLogs == MCSignedLogs \cup {<<"z">>}
MCLogPosts ==
  {Honest("log", "a", l) : l \in MCSignedLogs}
    \cup {Forged(Honest("log", "a", <<"z">>)), Honest("log", "a", <<"bad">>),
          Garbled(Honest("log", "a", <<"x">>))}

\* Device lists and spoilt keypackages on both wires; Bundle3 is only ever forged.
MCBundlePosts ==
  {Uppercase(Honest("account", "a", Bundle2)), Honest("account", "a", Headless),
   Tampered(Honest("keypackage", "d", "k2"))}
MCBundleMessages ==
  {Honest("account", "a", Bundle1), Forged(Honest("account", "a", Bundle3)),
   Truncated(Honest("keypackage", "d", "k1"))}

MCUppercasePosts == {Uppercase(Honest("keypackage", "d", "k1"))}
=============================================================================
