-------------------------- MODULE CxxDeclarations --------------------------
(***************************************************************************)
(* The wrapper classes as onnxruntime_cxx_api.h declares them: for every   *)
(* method the part of its class it is in, and what it returns.             *)
(*                                                                         *)
(* A class X has a part that ConstX views share and a part only X itself   *)
(* and UnownedX views have ("we separate const-only methods").  A          *)
(* constructor or a factory is filed under the class it makes, with the    *)
(* part that its argument needs.  A suffix tells overloads apart.          *)
(***************************************************************************)
EXTENDS CApi

Returns(kind, class) == [kind |-> kind, class |-> class]

Plain        == Returns("plain", "none")     \* a number, a std::string, *this, a block
Writable     == Returns("pointer", "none")   \* T*, T&
ReadOnly     == Returns("const_pointer", "none")
Str          == Returns("string", "char")    \* AllocatedStringPtr
Vector       == Returns("vector", "none")    \* see ResultTransfer
Owner(c)     == Returns("owner", c)          \* X
View(c)      == Returns("view", c)           \* UnownedX
ConstView(c) == Returns("const_view", c)     \* ConstX
RawPtr(c)    == Returns("raw", c)            \* OrtX* to be released by the caller

ConstPart(class, returns, names) ==
  [m \in {class} \X names |-> [part |-> "const", returns |-> returns]]
MutablePart(class, returns, names) ==
  [m \in {class} \X names |-> [part |-> "mutable", returns |-> returns]]
FromOwner(class, returns, names) ==   \* the argument is an X&: no view will do
  [m \in {class} \X names |-> [part |-> "owner", returns |-> returns]]

-----------------------------------------------------------------------------
(* The class declarations. *)

StatusDecl ==
  ConstPart("Status", Owner("Status"), {"Status"})
  @@ ConstPart("Status", Plain, {"GetErrorMessage", "GetErrorCode"})

ThreadingOptionsDecl ==
  ConstPart("ThreadingOptions", Owner("ThreadingOptions"), {"ThreadingOptions"})
  @@ MutablePart("ThreadingOptions", Plain,
       {"SetGlobalIntraOpNumThreads", "SetGlobalInterOpNumThreads", "SetGlobalSpinControl",
        "SetGlobalDenormalAsZero", "SetGlobalCustomCreateThreadFn",
        "SetGlobalCustomThreadCreationOptions", "SetGlobalCustomJoinThreadFn"})

EnvDecl ==
  ConstPart("Env", Owner("Env"), {"Env", "Env_logger", "Env_threads", "Env_threads_logger"})
  @@ MutablePart("Env", Plain,
       {"EnableTelemetryEvents", "DisableTelemetryEvents", "UpdateEnvWithCustomLogLevel",
        "CreateAndRegisterAllocator", "CreateAndRegisterAllocatorV2"})

CustomOpDomainDecl ==
  ConstPart("CustomOpDomain", Owner("CustomOpDomain"), {"CustomOpDomain"})
  @@ MutablePart("CustomOpDomain", Plain, {"Add"})

RunOptionsDecl ==
  ConstPart("RunOptions", Owner("RunOptions"), {"RunOptions"})
  @@ ConstPart("RunOptions", Plain, {"GetRunLogVerbosityLevel", "GetRunLogSeverityLevel"})
  @@ ConstPart("RunOptions", ReadOnly, {"GetRunTag"})
  @@ MutablePart("RunOptions", Plain,
       {"SetRunLogVerbosityLevel", "SetRunLogSeverityLevel", "SetRunTag", "AddConfigEntry",
        "SetTerminate", "UnsetTerminate"})

ConstSessionOptionsDecl ==
  ConstPart("SessionOptions", Owner("SessionOptions"), {"SessionOptions", "Clone"})
  @@ ConstPart("SessionOptions", Plain, {"GetConfigEntry", "HasConfigEntry",
                                         "GetConfigEntryOrDefault"})

SessionOptionsDecl ==
  MutablePart("SessionOptions", Plain,
    {"SetIntraOpNumThreads", "SetInterOpNumThreads", "SetGraphOptimizationLevel",
     "EnableCpuMemArena", "DisableCpuMemArena", "SetOptimizedModelFilePath",
     "EnableProfiling", "DisableProfiling", "EnableOrtCustomOps", "EnableMemPattern",
     "DisableMemPattern", "SetExecutionMode", "SetLogId", "SetLogSeverityLevel", "Add",
     "DisablePerSessionThreads", "AddConfigEntry", "AddInitializer",
     "AddExternalInitializers", "AppendExecutionProvider_CUDA",
     "AppendExecutionProvider_CUDA_V2", "AppendExecutionProvider_ROCM",
     "AppendExecutionProvider_OpenVINO", "AppendExecutionProvider_TensorRT",
     "AppendExecutionProvider_TensorRT_V2", "AppendExecutionProvider_MIGraphX",
     "AppendExecutionProvider_CANN", "AppendExecutionProvider_Dnnl",
     "AppendExecutionProvider", "SetCustomCreateThreadFn",
     "SetCustomThreadCreationOptions", "SetCustomJoinThreadFn",
     "RegisterCustomOpsLibrary", "RegisterCustomOpsUsingFunction"})

ModelMetadataDecl ==
  ConstPart("ModelMetadata", Str,
    {"GetProducerNameAllocated", "GetGraphNameAllocated", "GetDomainAllocated",
     "GetDescriptionAllocated", "GetGraphDescriptionAllocated",
     "LookupCustomMetadataMapAllocated"})
  @@ ConstPart("ModelMetadata", Vector, {"GetCustomMetadataMapKeysAllocated"})
  @@ ConstPart("ModelMetadata", Plain, {"GetVersion"})

MetadataGetter == ConstPart("Session", Owner("ModelMetadata"), {"GetModelMetadata"})

SessionDecl ==
  ConstPart("Session", Plain, {"GetInputCount", "GetOutputCount",
                               "GetOverridableInitializerCount", "GetProfilingStartTimeNs"})
  @@ ConstPart("Session", Str, {"GetInputNameAllocated", "GetOutputNameAllocated",
                                "GetOverridableInitializerNameAllocated"})
  @@ MetadataGetter
  @@ ConstPart("Session", Owner("TypeInfo"), {"GetInputTypeInfo", "GetOutputTypeInfo",
                                              "GetOverridableInitializerTypeInfo"})
  @@ MutablePart("Session", Vector, {"Run"})
  @@ MutablePart("Session", Plain, {"Run_into", "Run_binding", "RunAsync"})
  @@ MutablePart("Session", Str, {"EndProfilingAllocated"})
  @@ FromOwner("Session", Owner("Session"),
       {"Session", "Session_prepacked", "Session_data", "Session_data_prepacked"})

MemoryInfoDecl ==
  ConstPart("MemoryInfo", Plain, {"GetAllocatorName", "GetAllocatorType", "GetDeviceId",
                                  "GetDeviceType", "GetMemoryType", "equals"})
  @@ ConstPart("MemoryInfo", Owner("MemoryInfo"), {"MemoryInfo", "CreateCpu"})

TensorTypeAndShapeInfoDecl ==
  ConstPart("TensorTypeAndShapeInfo", Plain,
    {"GetElementType", "GetElementCount", "GetDimensionsCount", "GetDimensions", "GetShape"})
  @@ ConstPart("TensorTypeAndShapeInfo", ReadOnly, {"GetSymbolicDimensions"})

ContainerTypeInfoDecl ==
  ConstPart("SequenceTypeInfo", Owner("TypeInfo"), {"GetSequenceElementType"})
  @@ ConstPart("OptionalTypeInfo", Owner("TypeInfo"), {"GetOptionalElementType"})
  @@ ConstPart("MapTypeInfo", Plain, {"GetMapKeyType"})
  @@ ConstPart("MapTypeInfo", Owner("TypeInfo"), {"GetMapValueType"})

TensorCast ==
  ConstPart("TypeInfo", ConstView("TensorTypeAndShapeInfo"), {"GetTensorTypeAndShapeInfo"})

TypeInfoDecl ==
  TensorCast
  @@ ConstPart("TypeInfo", ConstView("SequenceTypeInfo"), {"GetSequenceTypeInfo"})
  @@ ConstPart("TypeInfo", ConstView("MapTypeInfo"), {"GetMapTypeInfo"})
  @@ ConstPart("TypeInfo", ConstView("OptionalTypeInfo"), {"GetOptionalTypeInfo"})
  @@ ConstPart("TypeInfo", Plain, {"GetONNXType"})

ConstValueDecl ==
  ConstPart("Value", Plain,
    {"GetOpaqueData", "IsTensor", "HasValue", "GetCount", "GetStringTensorDataLength",
     "GetStringTensorContent", "GetStringTensorElement_buffer", "GetStringTensorElement",
     "GetStringTensorElementLength", "GetSparseFormat", "IsSparseTensor"})
  @@ ConstPart("Value", Owner("Value"), {"GetValue"})
  @@ ConstPart("Value", ReadOnly, {"GetTensorData", "GetTensorRawData",
                                   "GetSparseTensorIndicesData", "GetSparseTensorValues"})
  @@ ConstPart("Value", Owner("TypeInfo"), {"GetTypeInfo"})
  @@ ConstPart("Value", Owner("TensorTypeAndShapeInfo"),
       {"GetTensorTypeAndShapeInfo", "GetSparseTensorValuesTypeAndShapeInfo",
        "GetSparseTensorIndicesTypeShapeInfo"})
  @@ ConstPart("Value", ConstView("MemoryInfo"), {"GetTensorMemoryInfo"})

ValueDecl ==
  MutablePart("Value", Writable, {"GetTensorMutableData", "GetTensorMutableRawData", "At",
                                  "GetResizedStringTensorElementBuffer"})
  @@ MutablePart("Value", Plain,
       {"FillStringTensor", "FillStringTensorElement", "UseCooIndices", "UseCsrIndices",
        "UseBlockSparseIndices", "FillSparseTensorCoo", "FillSparseTensorCsr",
        "FillSparseTensorBlockSparse"})

ValueFactoryDecl ==
  ConstPart("Value", Owner("Value"), {"CreateTensor_data", "CreateSparseTensor_data",
                                      "CreateOpaque"})
  @@ FromOwner("Value", Owner("Value"), {"CreateMap", "CreateSequence"})
  @@ MutablePart("Value", Owner("Value"), {"CreateTensor", "CreateSparseTensor"})

AllocatorDecl ==
  MutablePart("Allocator", Plain, {"Alloc", "GetAllocation", "Free"})
  @@ ConstPart("Allocator", ConstView("MemoryInfo"), {"GetInfo"})
  @@ ConstPart("Allocator", View("Allocator"), {"AllocatorWithDefaultOptions"})
  @@ FromOwner("Allocator", Owner("Allocator"), {"Allocator"})

IoBindingDecl ==
  ConstPart("IoBinding", Vector, {"GetOutputNames", "GetOutputValues"})
  @@ MutablePart("IoBinding", Plain,
       {"BindInput", "BindOutput", "BindOutput_device", "ClearBoundInputs",
        "ClearBoundOutputs", "SynchronizeInputs", "SynchronizeOutputs"})
  @@ FromOwner("IoBinding", Owner("IoBinding"), {"IoBinding"})

ArenaCfgDecl == ConstPart("ArenaCfg", Owner("ArenaCfg"), {"ArenaCfg"})

LoggerDecl == ConstPart("Logger", Plain, {"LogMessage"})

(* KernelContext holds a pointer through which its const methods may write. *)
KernelContextDecl ==
  ConstPart("OpAttr", Owner("OpAttr"), {"OpAttr"})
  @@ MutablePart("KernelContext", Plain, {"GetInputCount", "GetOutputCount",
                                          "GetGPUComputeStream"})
  @@ MutablePart("KernelContext", ConstView("Value"), {"GetInput"})
  @@ MutablePart("KernelContext", View("Value"), {"GetOutput"})
  @@ MutablePart("KernelContext", ConstView("Logger"), {"GetLogger"})
  @@ MutablePart("KernelContext", RawPtr("Allocator"), {"GetAllocator"})

KernelInfoDecl ==
  ConstPart("KernelInfo", Owner("KernelInfo"), {"Copy"})
  @@ ConstPart("KernelInfo", Plain,
       {"GetAttribute_float", "GetAttribute_int64", "GetAttribute_string",
        "GetAttributes_float", "GetAttributes_int64", "GetInputCount", "GetOutputCount",
        "GetInputName", "GetOutputName", "GetNodeName"})
  @@ ConstPart("KernelInfo", Owner("Value"), {"GetTensorAttribute"})
  @@ ConstPart("KernelInfo", Owner("TypeInfo"), {"GetInputTypeInfo", "GetOutputTypeInfo"})
  @@ ConstPart("KernelInfo", ConstView("Value"), {"GetTensorConstantInput"})
  @@ ConstPart("KernelInfo", ConstView("Logger"), {"GetLogger"})

OpDecl ==
  ConstPart("Op", Owner("Op"), {"Create"}) @@ MutablePart("Op", Plain, {"Invoke"})

Declared ==
  StatusDecl @@ ThreadingOptionsDecl @@ EnvDecl @@ CustomOpDomainDecl @@ RunOptionsDecl
  @@ ConstSessionOptionsDecl @@ SessionOptionsDecl @@ ModelMetadataDecl @@ SessionDecl
  @@ MemoryInfoDecl
  @@ TensorTypeAndShapeInfoDecl @@ ContainerTypeInfoDecl @@ TypeInfoDecl @@ ConstValueDecl
  @@ ValueDecl @@ ValueFactoryDecl @@ AllocatorDecl @@ IoBindingDecl @@ ArenaCfgDecl
  @@ LoggerDecl @@ KernelContextDecl @@ KernelInfoDecl @@ OpDecl

(* The owning classes with methods GetConst() and GetUnowned(), and those with a *)
(* constructor that takes over a pointer from the C interface.                   *)
HasConst == {"SessionOptions", "Session", "MemoryInfo", "TensorTypeAndShapeInfo",
             "SequenceTypeInfo", "MapTypeInfo", "TypeInfo", "Value", "IoBinding", "KernelInfo"}
HasUnowned == {"SessionOptions", "Session", "Value", "IoBinding"}
Adopting == {"Status", "Env", "SessionOptions", "ModelMetadata", "MemoryInfo",
             "TensorTypeAndShapeInfo", "SequenceTypeInfo", "MapTypeInfo", "TypeInfo", "Value",
             "KernelInfo", "Op"}

(* The classes the overload set OrtRelease is defined for. *)
Releasable ==
  {"Allocator", "MemoryInfo", "CustomOpDomain", "ThreadingOptions", "Env", "RunOptions",
   "Session", "SessionOptions", "TensorTypeAndShapeInfo", "SequenceTypeInfo", "MapTypeInfo",
   "TypeInfo", "Value", "ModelMetadata", "IoBinding", "ArenaCfg", "Status", "OpAttr", "Op",
   "KernelInfo"}
=============================================================================
