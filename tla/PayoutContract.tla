---------------------------- MODULE PayoutContract ----------------------------
(***************************************************************************)
(* What the settlement handlers may count on when they call payOutCrypto.  *)
(* CryptoPayout shows that the code behind it keeps this contract.         *)
(*                                                                         *)
(* The answers are a transaction hash, an object with success false and,   *)
(* when the request to Blink fails, an object with success true.  All      *)
(* three are truthy.                                                       *)
(***************************************************************************)
CONSTANT Network   \* where the money goes: "evm", "starknet" or "lightning"

ASSUME NetworkAssumption == Network \in {"evm", "starknet", "lightning"}

PayoutResult == {"hash", "failure", "blinkFailure"}

\* A failure may hide a transfer that was sent.  On the EVM chains a hash is
\* that of a transfer that was executed; on Starknet the execution status is
\* not looked at.  Over Lightning the "hash" is a random id made after any
\* HTTP 200, whose body nobody reads, and a plain failure comes before paying.
PayOutAnswers(moved) ==
    {answer \in PayoutResult :
       /\ Network = "evm" => (answer = "hash" => moved) /\ answer # "blinkFailure"
       /\ Network = "starknet" => answer # "blinkFailure"
       /\ Network = "lightning" => (answer = "failure" => ~moved)}
=============================================================================
