----------------------------- MODULE MCCrlCache -----------------------------
(* Instances of CrlCache for TLC: two drones, of whose certificates one    *)
(* has no '/' in its text, and what may be on the list.                    *)
EXTENDS CrlCache, TLC

CONSTANTS c1, c2

TwoCerts == {c1, c2}
FirstCert == {c1}
SecondCert == {c2}
Texts == {Text(c1), Text(c2)}
TextAndSerial == {Text(c1), Serial(c2)}
=============================================================================
