----------------------------- MODULE MCDriveHealth ------------------------------
\* An instance of DriveHealth: a drive whose name the shell refuses and whose
\* bridge hides its SMART data, before an ordinary one.
EXTENDS DriveHealth

MCListing == <<"cciss!c0d0", "sda">>
================================================================================
