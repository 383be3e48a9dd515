----------------------------- MODULE MCKeyStore -----------------------------
(* Values for the constants of KeyStore in the runs of TLC. *)
EXTENDS KeyStoreBook

CONSTANTS kernel, logo, ramdisk

MCSections == {kernel, logo, ramdisk}
MCOversized == {ramdisk}

\* One entry, two entries, the same section twice, a page that fails midway, and an empty page.
MCListing == {<<kernel>>, <<logo, kernel>>, <<kernel, kernel>>, <<kernel, ramdisk, logo>>, <<>>}
MCShortListing == {<<kernel>>, <<kernel, logo>>}
=============================================================================
