------------------------------- MODULE MCFacade -------------------------------
(***************************************************************************)
(* Values for model checking Facade: base58 with three characters and      *)
(* bytes below eight, so that one byte takes two characters and a full     *)
(* block of two takes four, which can say 81 numbers for 64.               *)
(***************************************************************************)
EXTENDS Facade

CONSTANT Dot, Letter

MCEncSizes == <<2, 4>>

(* One byte holds the prefixes of mainnet; those of testnet take two.      *)
MCPrefixes == [mainnet |-> <<0, 1, 2>>, testnet |-> <<4, 6, 5>>]

MCDigest(bytes) == <<FoldLeft(LAMBDA sum, byte : (3 * sum + byte + 5) % Radix, 0, bytes)>>

MCCharacters == {0, 1, 2, Comma}

MCHosts == {[name |-> <<Letter, Dot, Letter>>, v6 |-> FALSE],
            [name |-> <<1, Colon, Colon, 2>>, v6 |-> TRUE],
            [name |-> <<Colon, Colon, 1>>, v6 |-> TRUE]}

MCScheme == <<Letter, Letter>>
MCPort   == <<1, 2>>
=============================================================================
