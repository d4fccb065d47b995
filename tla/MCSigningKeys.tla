--------------------------- MODULE MCSigningKeys ---------------------------
(***************************************************************************)
(* Three gateways that share a signing profile, asked for their card five  *)
(* times in all; one is killed and one write fails.                        *)
(***************************************************************************)
EXTENDS SigningKeys

CONSTANTS p1, p2, p3, i1, i2, i3, i4

File(exists, text, ended) ==
    [exists |-> exists, key |-> NoKey, text |-> text, ended |-> ended, others |-> TRUE]

\* No file; one without the key, and one whose last line has no end; one with
\* a blank line of the key.
MCFirstFiles == { File(FALSE, FALSE, TRUE), File(TRUE, FALSE, TRUE),
                  File(TRUE, FALSE, FALSE), File(TRUE, TRUE, TRUE) }

=============================================================================
