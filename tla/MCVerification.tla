--------------------------- MODULE MCVerification ---------------------------
(***************************************************************************)
(* Verification with two threads.  Of the items, "p" and "q" are two       *)
(* proofs (or messages) of one key, of which the first verifies, "r" is    *)
(* another that does, and "x" belongs to a key that is not a point.        *)
(***************************************************************************)
EXTENDS Verification

p == [key |-> 1, data |-> "p"]
q == [key |-> 1, data |-> "q"]
r == [key |-> 2, data |-> "r"]
x == [key |-> 3, data |-> "x"]

MCItem == {p, q, r, x}
MCValid == {p, r}
MCParsed == {p, q, r}

Calls(c, ops, lists) == [context : {c}, op : ops, items : lists]

MCCall ==
    UNION {
        Calls("BP_CONTEXT", {"Bulletproofs::BatchVerify"},
              {<<p>>, <<q>>, <<r>>, <<p, r>>, <<q, r>>, <<p, x>>}),
        Calls("BP_CONTEXT", {"Bulletproofs::Generate"}, {<<>>}),
        Calls("BP_CONTEXT", {"Bulletproofs::Rewind"}, {<<p>>}),
        Calls("SCHNORR_CONTEXT", {"Schnorr::BatchVerify"}, {<<>>, <<p, r>>, <<q, p>>, <<p, x>>}),
        Calls("SCHNORR_CONTEXT", {"Schnorr::Verify"}, {<<p>>, <<q>>}),
        Calls("SCHNORR_CONTEXT", {"Schnorr::Sign", "Schnorr::SignMessage"}, {<<>>}),
        Calls("MUSIG_CONTEXT",
              {"MuSig::CalculatePartial", "MuSig::VerifyPartial"}, {<<p, r>>, <<q, x>>}),
        Calls("MUSIG_CONTEXT", {"MuSig::GenerateSecureNonce", "MuSig::Aggregate"}, {<<p>>}),
        Calls("SECP256K1_CONTEXT",
              {"Crypto::AddCommitments", "Crypto::AddBlindingFactors"}, {<<>>, <<p, x>>}),
        Calls("SECP256K1_CONTEXT",
              {"Crypto::CommitBlinded", "Crypto::CalculatePublicKey", "Crypto::AddPublicKeys",
               "Crypto::ToPublicKey", "Crypto::MultiplyKey", "Crypto::BlindSwitch",
               "Crypto::AddPrivateKeys"}, {<<p>>})}
=============================================================================
