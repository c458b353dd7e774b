--------------------------- MODULE MCLinuxInstall ---------------------------
EXTENDS LinuxInstall
=============================================================================
