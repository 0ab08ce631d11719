\* Every combination of command-line value (absent, empty, set),
\* environment variable, config file key and validateCert setting for all
\* three credentials, with and without --trust-invalid-certs,
\* PROXMOX_INVALID_CERT, a trailing '/' and each of --list, --host, neither.
CONSTANTS
  Fields <- MCFields
SPECIFICATION Spec
\* main hands over to main_list or main_host, raises, or exits: the model
\* ends there.
CHECK_DEADLOCK FALSE
INVARIANTS
  TypeOK
  CredentialPrecedence
  RaisesOnlyWhenMissing
  CertCheckOffOnlyWhenAsked
