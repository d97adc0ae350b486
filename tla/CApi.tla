-------------------------------- MODULE CApi --------------------------------
(***************************************************************************)
(* The C interface of the runtime (struct OrtApi), as far as the lifetime  *)
(* of its objects goes.  For every function: the class of the object it    *)
(* works on, whether its signature lets it change that object, and what it *)
(* gives back.  Signatures say the first two; the third is what the        *)
(* comment above each function says of its out parameter: "must be freed"  *)
(* (handed), "do not free" (lent), "allocated using allocator" (string).   *)
(* The definitions follow the sections of the header.                      *)
(***************************************************************************)
EXTENDS TLC

Gives(how, class) == [how |-> how, class |-> class, null |-> FALSE]

Data         == Gives("data", "none")      \* copied out, or nothing at all
Block        == Gives("block", "none")     \* of memory, see MemoryAllocations
Pointer      == Gives("pointer", "none")   \* into the object, to be written through
ConstPointer == Gives("const_pointer", "none")
String       == Gives("string", "char")    \* made by the allocator that is passed
Results      == Gives("results", "none")   \* an array of them, see ResultTransfer
Handed(c)    == Gives("handed", c)         \* the caller must release it
HandedIn(c)  == Gives("handed_in", c)      \* and before the allocator that is passed
Lent(c)      == Gives("lent", c)           \* part of the object worked on
ConstLent(c) == Gives("const_lent", c)
OrNull(g)    == [g EXCEPT !.null = TRUE]   \* nullptr is an answer, not an error

(* The functions fs that take an object of the class by const pointer, or by a *)
(* plain one; the functions that take none.                                    *)
Reads(class, gives, fs) == [f \in fs |-> [on |-> class, access |-> "reads", gives |-> gives]]
Changes(class, gives, fs) == [f \in fs |-> [on |-> class, access |-> "changes", gives |-> gives]]
Creates(class, fs) == [f \in fs |-> [on |-> "none", access |-> "reads", gives |-> Handed(class)]]
Globals(gives, fs) == [f \in fs |-> [on |-> "none", access |-> "reads", gives |-> gives]]

-----------------------------------------------------------------------------
StatusCalls ==
  Creates("Status", {"CreateStatus"})
  @@ Reads("Status", Data, {"GetErrorCode"})
  @@ Reads("Status", ConstPointer, {"GetErrorMessage"})

EnvCalls ==
  Creates("Env", {"CreateEnv", "CreateEnvWithCustomLogger"})
  @@ Reads("Env", Data, {"EnableTelemetryEvents", "DisableTelemetryEvents"})

SessionCalls ==
  Reads("Env", Handed("Session"), {"CreateSession", "CreateSessionFromArray"})
  @@ Changes("Session", Data, {"Run"})

SessionOptionsCalls ==
  Creates("SessionOptions", {"CreateSessionOptions"})
  @@ Reads("SessionOptions", Handed("SessionOptions"), {"CloneSessionOptions"})
  @@ Changes("SessionOptions", Data,
       {"SetOptimizedModelFilePath", "SetSessionExecutionMode", "EnableProfiling",
        "DisableProfiling", "EnableMemPattern", "DisableMemPattern", "EnableCpuMemArena",
        "DisableCpuMemArena", "SetSessionLogId", "SetSessionLogVerbosityLevel",
        "SetSessionLogSeverityLevel"})

ThreadAndDomainCalls ==
  Changes("SessionOptions", Data,
    {"SetSessionGraphOptimizationLevel", "SetIntraOpNumThreads", "SetInterOpNumThreads",
     "AddCustomOpDomain", "RegisterCustomOpsLibrary"})
  @@ Creates("CustomOpDomain", {"CreateCustomOpDomain"})
  @@ Changes("CustomOpDomain", Data, {"CustomOpDomain_Add"})

SessionGetters ==
  Reads("Session", Data, {"SessionGetInputCount", "SessionGetOutputCount",
                          "SessionGetOverridableInitializerCount"})
  @@ Reads("Session", Handed("TypeInfo"),
       {"SessionGetInputTypeInfo", "SessionGetOutputTypeInfo",
        "SessionGetOverridableInitializerTypeInfo"})
  @@ Reads("Session", String, {"SessionGetInputName", "SessionGetOutputName",
                               "SessionGetOverridableInitializerName"})

RunOptionsCalls ==
  Creates("RunOptions", {"CreateRunOptions"})
  @@ Changes("RunOptions", Data,
       {"RunOptionsSetRunLogVerbosityLevel", "RunOptionsSetRunLogSeverityLevel",
        "RunOptionsSetRunTag", "RunOptionsSetTerminate", "RunOptionsUnsetTerminate"})
  @@ Reads("RunOptions", Data, {"RunOptionsGetRunLogVerbosityLevel",
                                "RunOptionsGetRunLogSeverityLevel"})
  @@ Reads("RunOptions", ConstPointer, {"RunOptionsGetRunTag"})

TensorCalls ==
  Changes("Allocator", Handed("Value"), {"CreateTensorAsOrtValue"})
  @@ Reads("MemoryInfo", Handed("Value"), {"CreateTensorWithDataAsOrtValue"})
  @@ Reads("Value", Data, {"IsTensor", "GetStringTensorDataLength", "GetStringTensorContent"})
  @@ Changes("Value", Pointer, {"GetTensorMutableData"})
  @@ Changes("Value", Data, {"FillStringTensor"})

TensorInfoCalls ==
  Reads("TypeInfo", OrNull(ConstLent("TensorTypeAndShapeInfo")), {"CastTypeInfoToTensorInfo"})
  @@ Reads("TypeInfo", Data, {"GetOnnxTypeFromTypeInfo"})
  @@ Creates("TensorTypeAndShapeInfo", {"CreateTensorTypeAndShapeInfo"})
  @@ Changes("TensorTypeAndShapeInfo", Data, {"SetTensorElementType", "SetDimensions"})
  @@ Reads("TensorTypeAndShapeInfo", Data,
       {"GetTensorElementType", "GetDimensionsCount", "GetDimensions",
        "GetTensorShapeElementCount"})
  @@ Reads("TensorTypeAndShapeInfo", ConstPointer, {"GetSymbolicDimensions"})

ValueTypeAndMemoryCalls ==
  Reads("Value", Handed("TensorTypeAndShapeInfo"), {"GetTensorTypeAndShape"})
  @@ Reads("Value", OrNull(Handed("TypeInfo")), {"GetTypeInfo"})
  @@ Reads("Value", Data, {"GetValueType"})
  @@ Creates("MemoryInfo", {"CreateMemoryInfo", "CreateCpuMemoryInfo"})
  @@ Reads("MemoryInfo", Data, {"CompareMemoryInfo", "MemoryInfoGetId",
                                "MemoryInfoGetMemType", "MemoryInfoGetType"})
  @@ Reads("MemoryInfo", ConstPointer, {"MemoryInfoGetName"})
  @@ Changes("Allocator", Data, {"AllocatorFree"})
  @@ Changes("Allocator", Block, {"AllocatorAlloc"})
  @@ Reads("Allocator", ConstLent("MemoryInfo"), {"AllocatorGetInfo"})
  @@ Globals(Lent("Allocator"), {"GetAllocatorWithDefaultOptions"})
  @@ Changes("SessionOptions", Data, {"AddFreeDimensionOverride"})

NonTensorCalls ==
  Reads("Value", Handed("Value"), {"GetValue", "CreateValue"})
  @@ Creates("Value", {"CreateOpaqueValue"})
  @@ Reads("Value", Data, {"GetValueCount", "GetOpaqueValue"})

KernelCalls ==
  Reads("KernelInfo", Data, {"KernelInfoGetAttribute_float", "KernelInfoGetAttribute_int64",
                             "KernelInfoGetAttribute_string"})
  @@ Reads("KernelContext", Data, {"KernelContext_GetInputCount", "KernelContext_GetOutputCount"})
  @@ Reads("KernelContext", OrNull(ConstLent("Value")), {"KernelContext_GetInput"})
  @@ Changes("KernelContext", OrNull(Lent("Value")), {"KernelContext_GetOutput"})

TypeInfoCalls ==
  Reads("TypeInfo", ConstPointer, {"GetDenotationFromTypeInfo"})
  @@ Reads("TypeInfo", OrNull(ConstLent("MapTypeInfo")), {"CastTypeInfoToMapTypeInfo"})
  @@ Reads("TypeInfo", OrNull(ConstLent("SequenceTypeInfo")), {"CastTypeInfoToSequenceTypeInfo"})
  @@ Reads("MapTypeInfo", Data, {"GetMapKeyType"})
  @@ Reads("MapTypeInfo", Handed("TypeInfo"), {"GetMapValueType"})
  @@ Reads("SequenceTypeInfo", Handed("TypeInfo"), {"GetSequenceElementType"})

ModelMetadataCalls ==
  Changes("Session", String, {"SessionEndProfiling"})
  @@ Reads("Session", Handed("ModelMetadata"), {"SessionGetModelMetadata"})
  @@ Reads("ModelMetadata", String,
       {"ModelMetadataGetProducerName", "ModelMetadataGetGraphName", "ModelMetadataGetDomain",
        "ModelMetadataGetDescription"})
  @@ Reads("ModelMetadata", OrNull(String), {"ModelMetadataLookupCustomMetadataMap"})
  @@ Reads("ModelMetadata", Data, {"ModelMetadataGetVersion"})

ThreadPoolAndStringCalls ==
  Reads("ThreadingOptions", Handed("Env"), {"CreateEnvWithGlobalThreadPools"})
  @@ Changes("SessionOptions", Data, {"DisablePerSessionThreads", "AddFreeDimensionOverrideByName"})
  @@ Creates("ThreadingOptions", {"CreateThreadingOptions"})
  @@ Reads("ModelMetadata", Results, {"ModelMetadataGetCustomMetadataMapKeys"})
  @@ Globals(Results, {"GetAvailableProviders"})
  @@ Reads("Value", Data, {"GetStringTensorElementLength", "GetStringTensorElement"})
  @@ Changes("Value", Data, {"FillStringTensorElement"})

IoBindingCalls ==
  Changes("SessionOptions", Data, {"AddSessionConfigEntry"})
  @@ Reads("Session", Handed("Allocator"), {"CreateAllocator"})
  @@ Changes("Session", Data, {"RunWithBinding"})
  @@ Changes("Session", Handed("IoBinding"), {"CreateIoBinding"})
  @@ Changes("IoBinding", Data, {"BindInput", "BindOutput", "BindOutputToDevice"})
  @@ Reads("IoBinding", Results, {"GetBoundOutputNames", "GetBoundOutputValues"})

EnvironmentCalls ==
  Changes("IoBinding", Data, {"ClearBoundInputs", "ClearBoundOutputs"})
  @@ Changes("Value", Pointer, {"TensorAt"})
  @@ Changes("Env", Data, {"CreateAndRegisterAllocator"})
  @@ Reads("Env", Data, {"SetLanguageProjection"})
  @@ Reads("Session", Data, {"SessionGetProfilingStartTimeNs"})
  @@ Changes("ThreadingOptions", Data, {"SetGlobalIntraOpNumThreads", "SetGlobalInterOpNumThreads",
                                        "SetGlobalSpinControl"})
  @@ Changes("SessionOptions", Data, {"AddInitializer"})

ProviderAndArenaCalls ==
  Reads("ThreadingOptions", Handed("Env"), {"CreateEnvWithCustomLoggerAndGlobalThreadPools"})
  @@ Changes("SessionOptions", Data,
       {"SessionOptionsAppendExecutionProvider_CUDA", "SessionOptionsAppendExecutionProvider_ROCM",
        "SessionOptionsAppendExecutionProvider_OpenVINO",
        "SessionOptionsAppendExecutionProvider_TensorRT"})
  @@ Changes("ThreadingOptions", Data, {"SetGlobalDenormalAsZero"})
  @@ Creates("ArenaCfg", {"CreateArenaCfg"})
  @@ Reads("ModelMetadata", String, {"ModelMetadataGetGraphDescription"})

ArrayAttributeCalls ==
  Globals(Data, {"SetCurrentGpuDeviceId", "GetCurrentGpuDeviceId"})
  @@ Reads("KernelInfo", Data, {"KernelInfoGetAttributeArray_float",
                                "KernelInfoGetAttributeArray_int64"})
  @@ Creates("ArenaCfg", {"CreateArenaCfgV2"})
  @@ Changes("RunOptions", Data, {"AddRunConfigEntry"})
  @@ Creates("PrepackedWeightsContainer", {"CreatePrepackedWeightsContainer"})

PrepackedAndTensorRTCalls ==
  Reads("Env", Handed("Session"), {"CreateSessionWithPrepackedWeightsContainer",
                                   "CreateSessionFromArrayWithPrepackedWeightsContainer"})
  @@ Changes("SessionOptions", Data, {"SessionOptionsAppendExecutionProvider_TensorRT_V2",
                                      "EnableOrtCustomOps"})
  @@ Creates("TensorRTProviderOptions", {"CreateTensorRTProviderOptions"})
  @@ Changes("TensorRTProviderOptions", Data, {"UpdateTensorRTProviderOptions"})
  @@ Reads("TensorRTProviderOptions", String, {"GetTensorRTProviderOptionsAsString"})

SparseFillCalls ==
  Changes("Env", Data, {"RegisterAllocator", "UnregisterAllocator"})
  @@ Reads("Value", Data, {"IsSparseTensor"})
  @@ Changes("Allocator", HandedIn("Value"), {"CreateSparseTensorAsOrtValue"})
  @@ Changes("Value", Data, {"FillSparseTensorCoo", "FillSparseTensorCsr",
                             "FillSparseTensorBlockSparse"})

SparseReadCalls ==
  Reads("MemoryInfo", Handed("Value"), {"CreateSparseTensorWithValuesAsOrtValue"})
  @@ Changes("Value", Data, {"UseCooIndices", "UseCsrIndices", "UseBlockSparseIndices"})
  @@ Reads("Value", Data, {"GetSparseTensorFormat", "HasValue"})
  @@ Reads("Value", ConstPointer, {"GetSparseTensorValues", "GetSparseTensorIndices"})
  @@ Reads("Value", Handed("TensorTypeAndShapeInfo"),
       {"GetSparseTensorValuesTypeAndShape", "GetSparseTensorIndicesTypeShape"})

CustomThreadCalls ==
  Reads("KernelContext", Data, {"KernelContext_GetGPUComputeStream"})
  @@ Reads("Value", ConstLent("MemoryInfo"), {"GetTensorMemoryInfo"})
  @@ Globals(ConstPointer, {"GetExecutionProviderApi"})
  @@ Changes("SessionOptions", Data,
       {"SessionOptionsSetCustomCreateThreadFn", "SessionOptionsSetCustomThreadCreationOptions",
        "SessionOptionsSetCustomJoinThreadFn"})
  @@ Changes("ThreadingOptions", Data,
       {"SetGlobalCustomCreateThreadFn", "SetGlobalCustomThreadCreationOptions",
        "SetGlobalCustomJoinThreadFn"})
  @@ Changes("IoBinding", Data, {"SynchronizeBoundInputs", "SynchronizeBoundOutputs"})

CudaAndInitializerCalls ==
  Changes("SessionOptions", Data,
    {"SessionOptionsAppendExecutionProvider_CUDA_V2",
     "SessionOptionsAppendExecutionProvider_MIGraphX", "AddExternalInitializers"})
  @@ Creates("CUDAProviderOptions", {"CreateCUDAProviderOptions"})
  @@ Changes("CUDAProviderOptions", Data, {"UpdateCUDAProviderOptions"})
  @@ Reads("CUDAProviderOptions", String, {"GetCUDAProviderOptionsAsString"})

OpCalls ==
  Creates("OpAttr", {"CreateOpAttr"})
  @@ Reads("KernelInfo", Handed("Op"), {"CreateOp"})
  @@ Reads("Op", Data, {"InvokeOp"})
  @@ Changes("SessionOptions", Data, {"SessionOptionsAppendExecutionProvider"})
  @@ Reads("KernelInfo", Handed("KernelInfo"), {"CopyKernelInfo"})

CannAndLibraryCalls ==
  Changes("SessionOptions", Data,
    {"SessionOptionsAppendExecutionProvider_CANN", "RegisterCustomOpsLibrary_V2",
     "RegisterCustomOpsUsingFunction"})
  @@ Creates("CANNProviderOptions", {"CreateCANNProviderOptions"})
  @@ Changes("CANNProviderOptions", Data, {"UpdateCANNProviderOptions"})
  @@ Reads("CANNProviderOptions", String, {"GetCANNProviderOptionsAsString"})
  @@ Reads("MemoryInfo", Data, {"MemoryInfoGetDeviceType"})
  @@ Changes("Env", Data, {"UpdateEnvWithCustomLogLevel"})
  @@ Changes("ThreadingOptions", Data, {"SetGlobalIntraOpThreadAffinity"})

KernelInfoCalls ==
  Reads("KernelInfo", Data, {"KernelInfo_GetInputCount", "KernelInfo_GetOutputCount",
                             "KernelInfo_GetInputName", "KernelInfo_GetOutputName"})
  @@ Reads("KernelInfo", Handed("TypeInfo"), {"KernelInfo_GetInputTypeInfo",
                                              "KernelInfo_GetOutputTypeInfo"})
  @@ Reads("KernelInfo", Handed("Value"), {"KernelInfoGetAttribute_tensor"})

ConfigAndDnnlCalls ==
  Reads("SessionOptions", Data, {"HasSessionConfigEntry", "GetSessionConfigEntry"})
  @@ Changes("SessionOptions", Data, {"SessionOptionsAppendExecutionProvider_Dnnl"})
  @@ Creates("DnnlProviderOptions", {"CreateDnnlProviderOptions"})
  @@ Changes("DnnlProviderOptions", Data, {"UpdateDnnlProviderOptions"})
  @@ Reads("DnnlProviderOptions", String, {"GetDnnlProviderOptionsAsString"})

LoggerCalls ==
  Reads("KernelInfo", Data, {"KernelInfo_GetNodeName"})
  @@ Reads("KernelInfo", ConstLent("Logger"), {"KernelInfo_GetLogger"})
  @@ Reads("KernelContext", ConstLent("Logger"), {"KernelContext_GetLogger"})
  @@ Reads("Logger", Data, {"Logger_LogMessage", "Logger_GetLoggingSeverityLevel"})
  @@ Reads("KernelInfo", OrNull(ConstLent("Value")), {"KernelInfoGetConstantInput_tensor"})
  @@ Reads("TypeInfo", OrNull(ConstLent("OptionalTypeInfo")), {"CastTypeInfoToOptionalTypeInfo"})

(* What GetOptionalContainedTypeInfo gives "is owned by OrtOptionalTypeInfo        *)
(* instance", by its comment.                                                     *)
ResourceCalls ==
  Reads("OptionalTypeInfo", Lent("TypeInfo"), {"GetOptionalContainedTypeInfo"})
  @@ Changes("Value", Pointer, {"GetResizedStringTensorElementBuffer"})
  @@ Reads("KernelContext", Handed("Allocator"), {"KernelContext_GetAllocator"})
  @@ Creates("ROCMProviderOptions", {"CreateROCMProviderOptions"})
  @@ Changes("ROCMProviderOptions", Data, {"UpdateROCMProviderOptions"})
  @@ Reads("ROCMProviderOptions", String, {"GetROCMProviderOptionsAsString"})
  @@ Changes("Env", Data, {"CreateAndRegisterAllocatorV2"})
  @@ Changes("Session", Data, {"RunAsync"})

ByNameCalls ==
  Changes("TensorRTProviderOptions", Data, {"UpdateTensorRTProviderOptionsWithValue"})
  @@ Reads("TensorRTProviderOptions", Data, {"GetTensorRTProviderOptionsByName"})
  @@ Changes("CUDAProviderOptions", Data, {"UpdateCUDAProviderOptionsWithValue"})
  @@ Reads("CUDAProviderOptions", Data, {"GetCUDAProviderOptionsByName"})
  @@ Reads("KernelContext", Data, {"KernelContext_GetResource"})

(* Every function of the interface but the Release functions. *)
Calls ==
  StatusCalls @@ EnvCalls @@ SessionCalls @@ SessionOptionsCalls @@ ThreadAndDomainCalls
  @@ SessionGetters @@ RunOptionsCalls @@ TensorCalls @@ TensorInfoCalls
  @@ ValueTypeAndMemoryCalls @@ NonTensorCalls @@ KernelCalls @@ TypeInfoCalls
  @@ ModelMetadataCalls @@ ThreadPoolAndStringCalls @@ IoBindingCalls @@ EnvironmentCalls
  @@ ProviderAndArenaCalls @@ ArrayAttributeCalls @@ PrepackedAndTensorRTCalls
  @@ SparseFillCalls @@ SparseReadCalls @@ CustomThreadCalls @@ CudaAndInitializerCalls
  @@ OpCalls @@ CannAndLibraryCalls @@ KernelInfoCalls @@ ConfigAndDnnlCalls
  @@ LoggerCalls @@ ResourceCalls @@ ByNameCalls
=============================================================================
