SPECIFICATION Spec
CONSTANTS
  Hooks <- MCHooks
  Argvs <- MCArgvs
  Confs <- MCConfs
INVARIANTS HandlersInOrder OptionsAsMeant OwnDongle RestartBinds
PROPERTY DongleComesUp
