-------------------------------- MODULE MCGrant --------------------------------
EXTENDS Grant

CONSTANTS b1, b2, x, xy, r1, r2

\* Two levels below one bucket, with a component that starts like another, and a
\* second bucket.
MCPaths == {<<b1>>, <<b1, x>>, <<b1, xy>>, <<b1, x, x>>, <<b1, x, xy>>, <<b2>>, <<b2, x>>}
MCLonger == {<<x, xy>>}

\* An owner has a default key and cipher, and may have given a key of its own to one
\* bucket, or to a path below it, with the same or the other cipher.
MCOwners ==
  LET default(c) == NewStore(c, RootKey(r1))
      aes == default("aes")
  IN  {default(c) : c \in Ciphers}
        \cup {AddWithCipher(aes, <<b1>>, <<b1>>, RootKey(r2), "aes")}
        \cup {AddWithCipher(aes, <<b1, x>>, EncryptPath(aes, <<b1, x>>), RootKey(r2), "null")}

\* The base64 of a name, of an encrypted name, of two components, and a text that is
\* not as it would be encoded.
MCTexts ==
  {EncodeToString(x), EncodeToString(EncryptPath(NewStore("aes", RootKey(r1)), <<b1, x>>)[2]),
   [text |-> <<x, xy>>, exact |-> TRUE], [text |-> <<x>>, exact |-> FALSE]}

\* Nothing, a whole bucket, nested and neighbouring prefixes, two at once.
MCShares == {{}, {<<b1>>}, {<<b1, xy>>}, {<<b1, x, x>>, <<b2>>}, {<<b1, x>>, <<b1, x, xy>>}}

\* Everything, reading for a time, and two that Restrict refuses.
MCPermissions == {[allow |-> Deniable, from |-> None, until |-> None],
                  [allow |-> {"Read", "List"}, from |-> 1, until |-> 1],
                  [allow |-> {}, from |-> None, until |-> None],
                  [allow |-> {"Read"}, from |-> 1, until |-> 0]}
==============================================================================
